---- MODULE Spec2Model ----
(***************************************************************************)
(* Verification model of the trunk-os control plane.                       *)
(*                                                                         *)
(*  - vayama: the migration engine (Migrator / Migration), its persisted    *)
(*    state file and its behaviour across a process crash and restart.      *)
(*  - charon: the install / uninstall handlers of the package manager, the  *)
(*    storage provisioning of a compiled package and the generated unit.    *)
(*  - charon: the package registry on disk (Registry::write, load, list)    *)
(*    with writers and readers running at the same time.                    *)
(*  - charon: SourcePackage::compile against the globals and the prompt     *)
(*    responses, which can be set while a compilation runs.                 *)
(***************************************************************************)
EXTENDS Integers, Sequences, FiniteSets, TLC

(***************************************************************************)
(* Bounds                                                                  *)
(***************************************************************************)
\* number of migrations handed to the Migrator
NumMigrations == 3
\* number of process crashes explored
MaxCrashes == 1
\* number of volumes the package declares in storage.volumes
NumVolumes == 2
\* number of Registry::write calls made at the same time for one title
NumWriters == 2
\* number of requests the package manager serves at the same time
NumHandlers == 2
\* number of GlobalRegistry::set and ResponseRegistry::set calls explored
MaxSets == 2
\* number of ResponseRegistry::set calls made at the same time for one package
NumSetters == 2
\* number of write system calls that put one serialized package into a file
PackageChunks == 2
\* length of the longest string handed to a template pass, in characters
MaxLen == 6
\* number of package names in the registry handed to Registry::validate
NumNames == 2

(***************************************************************************)
(* vayama: state                                                           *)
(***************************************************************************)
VARIABLES
    dependencies,   \* Migration.dependencies of every migration (fixed per run)
    state,          \* Migrator.state: MigrationState, in memory
    state_file,     \* content of <state_dir>/vayama.state
    state_file_tmp, \* content of <state_dir>/vayama.state.tmp
    pc,             \* position of the migrator process
    mode,           \* the Migrator method in progress
    cur,            \* index of the migration being attempted
    failed_snapshot,\* execute_failed: the clone of failed_migrations taken at entry
    calls,          \* what the current (or last) call did, in order
    writes,         \* persist_state calls made by the current (or last) call
    result,         \* what the last call returned
    crashes,        \* crashes so far
    crashed_in      \* migrations that execute had selected when the process crashed

mvars == <<dependencies, state, state_file, state_file_tmp, pc, mode, cur,
           failed_snapshot, calls, writes, result, crashes, crashed_in>>

(***************************************************************************)
(* charon: state                                                           *)
(***************************************************************************)
VARIABLES
    marker,         \* installed/<name>/<version> exists
    unit_file,      \* <systemd-root>/<title>.service exists
    manager_loaded, \* the service manager has read the unit file as it is now
    last_run_state, \* the unit's LastRunState as the manager reports it
    stopping,       \* the manager has a stop job for the unit
    zfs,            \* the entities of the pool: records name, kind, quota
    op,             \* per handler: the operation in progress or last returned
    hpc,            \* per handler: its position in the operation
    vol,            \* per handler: position in the loop over storage.volumes
    purge,          \* per handler: UninstallData.purge of the request
    trace,          \* per handler: the steps the call has completed, in order
    hres            \* per handler: what the call returned

cvars == <<marker, unit_file, manager_loaded, last_run_state, stopping, zfs, op, hpc, vol,
           purge, trace, hres>>

(***************************************************************************)
(* charon: state of the registry directory packages/<name>/                *)
(***************************************************************************)
VARIABLES
    dirent,         \* the directory: the inode behind <v>.json and <v>.json.tmp, 0 for none
    inode,          \* per inode: the chunks of the file, in order
    wpc,            \* per Registry::write call: its position
    wfd,            \* per Registry::write call: the inode its open file refers to
    woff,           \* per Registry::write call: the offset of its open file, in chunks
    rpc,            \* the Registry::load call: its position
    rfd,            \* the Registry::load call: the inode its open file refers to
    rbuf,           \* the Registry::load call: the chunks read so far
    loaded,         \* the values that loads have returned with Ok
    listed          \* the versions the last Registry::list returned

rvars == <<dirent, inode, wpc, wfd, woff, rpc, rfd, rbuf, loaded, listed>>

(***************************************************************************)
(* charon: state of a compilation and of the files it reads                *)
(***************************************************************************)
VARIABLES
    globals_file,   \* variables/<name>.json: the Global stored
    globals_tmp,    \* variables/<name>.json.tmp
    responses_dir,  \* responses/: the inode behind <name>.json and <name>.json.tmp, 0 for none
    responses_inode,\* per inode: the chunks of the file, each the set call that wrote it
    answers,        \* per set call: the PromptResponses it was given
    spc,            \* per ResponseRegistry::set call: its position
    sfd,            \* per ResponseRegistry::set call: the inode its open file refers to
    soff,           \* per ResponseRegistry::set call: the offset of its open file, in chunks
    sver,           \* per ResponseRegistry::set call: its number among the set calls
    sets,           \* set calls made so far
    kpc,            \* position of the SourcePackage::compile call
    kfd,            \* compile: the inode its open responses file refers to
    kbuf,           \* compile: the chunks of the responses file read so far
    source_package, \* the SourcePackage being compiled
    globals,        \* compile's local: the Global it read
    responses,      \* compile's local: the PromptResponses it read
    loads,          \* how often this compile call read each of the two files
    expanded,       \* the field values this compile call has produced, in order
    kres            \* what the last compile call returned

kvars == <<globals_file, globals_tmp, responses_dir, responses_inode, answers, spc, sfd,
           soff, sver, sets, kpc, kfd, kbuf, source_package, globals, responses, loads,
           expanded, kres>>

(***************************************************************************)
(* charon: state of one template pass (Global::template,                   *)
(* PromptParser::template)                                                  *)
(***************************************************************************)
VARIABLES
    tpc,            \* position of the template call
    pass,           \* which pass it is: "globals" or "prompts"
    template_s,     \* the argument s
    template_map,   \* self.variables, respectively responses.0, as (key, value) entries
    consumed,       \* how many characters of s the loop has taken
    inside,         \* the local inside
    tmp,            \* the local tmp
    out,            \* the local out
    tres            \* what the call returned

tvars == <<tpc, pass, template_s, template_map, consumed, inside, tmp, out, tres>>

(***************************************************************************)
(* charon: state of a Registry::validate call                              *)
(***************************************************************************)
VARIABLES
    package_files,  \* packages/<name>/<version>.json: what each path holds
    variables_files,\* variables/<name>.json: whether it is there and loads
    vpc,            \* position of the validate call
    vtarget,        \* the (name, version) it was called with
    vstack,         \* the frames of validate on the thread's stack, innermost last
    vres            \* how the call ended

vvars == <<package_files, variables_files, vpc, vtarget, vstack, vres>>

(***************************************************************************)
(* charon: state of a Registry::write followed by a Registry::load         *)
(***************************************************************************)
VARIABLES
    io_files,       \* packages/: the JSON document at each path, or none
    io_pc,          \* how far the write and the load are
    io_package,     \* the SourcePackage handed to write
    io_written,     \* what write returned
    io_loaded       \* what load returned

ivars == <<io_files, io_pc, io_package, io_written, io_loaded>>

(***************************************************************************)
(* charon: state of Registry::list                                         *)
(***************************************************************************)
VARIABLES
    packages_dir,
    installed_dir,
    lpc,
    lres

lvars == <<packages_dir, installed_dir, lpc, lres>>

(***************************************************************************)
(* charon: state of a generate_command call                                *)
(***************************************************************************)
VARIABLES
    gpackage,
    gpc,
    gres

gvars == <<gpackage, gpc, gres>>

(***************************************************************************)
(* buckle: state of a unit-log call                                        *)
(***************************************************************************)
VARIABLES
    journal,
    log_params,
    walker,
    rcv,
    forwarder,
    stream,
    delivered,
    jpc

jvars == <<journal, log_params, walker, rcv, forwarder, stream, delivered, jpc>>

(***************************************************************************)
(* gild: state of the requests served with an audit log                    *)
(***************************************************************************)
VARIABLES
    handler,
    http_response,
    task,
    audit_log

avars == <<handler, http_response, task, audit_log>>

(***************************************************************************)
(* charon: a stop of a VM package over its monitor socket                  *)
(***************************************************************************)
VARIABLES
    monitor,
    wire,
    qcall,
    qpc,
    qres,
    qcalls

qvars == <<monitor, wire, qcall, qpc, qres, qcalls>>

(***************************************************************************)
(* buckle: the ZFS pool and the calls that list it                         *)
(***************************************************************************)
VARIABLES
    datasets,
    zreq,
    zres

zvars == <<datasets, zreq, zres>>

(***************************************************************************)
(* buckle: a modification of a dataset or volume of the pool               *)
(***************************************************************************)
VARIABLES
    modify,
    zlog

yvars == <<modify, zlog>>

(***************************************************************************)
(* buckle: the startup migration runner                                    *)
(***************************************************************************)
VARIABLES
    migration_files,
    completed,
    plan_order,
    plan_state,
    bcur,
    bpc,
    blog,
    bruns

bvars == <<migration_files, completed, plan_order, plan_state, bcur, bpc, blog, bruns>>

(***************************************************************************)
(* vayama: the loop of Migrator::migration_dependencies                    *)
(***************************************************************************)
VARIABLES
    dep_index,
    dep_set,
    last_len,
    current_len,
    dep_queue,
    dep_pc

dvars == <<dep_index, dep_set, last_len, current_len, dep_queue, dep_pc>>

(***************************************************************************)
(* buckle: the migrator of the plan of migration/plan.rs                   *)
(***************************************************************************)
VARIABLES
    plan_pc,
    plan_current,
    plan_failed,
    plan_log

pvars == <<plan_pc, plan_current, plan_failed, plan_log>>

vars == <<mvars, cvars, rvars, kvars, tvars, vvars, ivars, lvars, gvars, jvars, avars, qvars, zvars, yvars, bvars, dvars, pvars>>

Indexes == 1..NumMigrations

\* the request handlers of the package manager
Handlers == 1..NumHandlers

\* the handler that serves the requests that come one at a time
Sequential == {1}

VolumeIndexes == 1..NumVolumes

\* Migration.name of the migration at (1-based) position i; names are ordered
\* as the BTreeSet orders them
Name(i) == 100 + i

\* a dependency name that no migration of the list carries
GhostName == 100

Names == {Name(i) : i \in Indexes}

\* Migration.check is Some for every second migration
HasCheck(i) == i % 2 = 0

\* Migration.post_check is Some from the third migration on
HasPostCheck(i) == i >= 3

Callables == {"check", "run", "post_check"}

\* the dependency declarations explored: none; each on its predecessor; each
\* on its successor (the first depends on the last only transitively); a ring
\* (every migration is in its own closure); a name that is no migration
NoDeps == [i \in Indexes |-> {}]
ChainDeps == [i \in Indexes |-> IF i > 1 THEN {Name(i - 1)} ELSE {}]
ReverseDeps == [i \in Indexes |-> IF i < NumMigrations THEN {Name(i + 1)} ELSE {}]
RingDeps == [i \in Indexes |-> {Name((i % NumMigrations) + 1)}]
GhostDeps == [i \in Indexes |-> IF i = 1 THEN {GhostName} ELSE {Name(1)}]

DependencyGraphs == {NoDeps, ChainDeps, ReverseDeps, RingDeps, GhostDeps}

(***************************************************************************)
(* charon: the registry's files                                            *)
(***************************************************************************)
Writers == 1..NumWriters

\* the inodes: the one of the package file there is at the start, and one for
\* each writer that finds no temporary file and creates it
Inodes == 1..(NumWriters + 1)

\* the package value a writer was given, as the content of each chunk it writes
Value(w) == w

\* the package value stored before any of the writes
PriorValue == NumWriters + 1

\* a chunk of a file that nothing was written to: zero bytes
Hole == 0

\* the complete serialization of package value v
Whole(v) == [k \in 1..PackageChunks |-> v]

\* write(2) of chunk v at offset pos - 1 of a file holding content
RECURSIVE WriteAt(_, _, _)
WriteAt(content, pos, v) ==
    IF pos <= Len(content) THEN [content EXCEPT ![pos] = v]
    ELSE IF pos = Len(content) + 1 THEN Append(content, v)
    ELSE WriteAt(Append(content, Hole), pos, v)

\* serde_json::from_reader on what was read: a package if the text is a
\* complete document
ParsesAsPackage(buf) ==
    Len(buf) = PackageChunks /\ \A k \in 1..Len(buf) : buf[k] # Hole

\* PackageTitle.version of the title, by its dot-separated parts
TitleVersion == <<"0", "0", "2">>

\* the file names of that version in packages/<name>/
JsonName == Append(TitleVersion, "json")
TmpName == Append(JsonName, "tmp")

\* a change of Registry::installed: the version is taken with file_stem
file_name_without_extension(name) ==
    IF Len(name) > 1 THEN SubSeq(name, 1, Len(name) - 1) ELSE name

\* Path::file_name: the whole last component
file_name(name) == name

\* Path::file_stem: the file name without its last extension
file_stem(name) == IF Len(name) > 1 THEN SubSeq(name, 1, Len(name) - 1) ELSE name

(***************************************************************************)
(* charon: templated fields, globals and responses                         *)
(***************************************************************************)
\* the set calls by their number; the content there is at the start counts
\* as written by the one after the last
InitialVersion == MaxSets + 1
Versions == 1..InitialVersion

\* what the globals file holds, or the response to one prompt: which set call
\* wrote it, whether it defines the variable / answers the prompt that the
\* package's fields refer to, and whether that text is a number
Content(ver, defined, num) == [present |-> TRUE, ver |-> ver, defined |-> defined, num |-> num]

\* no file; no response
Nothing == [present |-> FALSE, ver |-> 0, defined |-> FALSE, num |-> FALSE]

\* what a set call can be given
SetContents(ver) ==
    {Content(ver, TRUE, TRUE), Content(ver, TRUE, FALSE), Content(ver, FALSE, FALSE)}

\* the ResponseRegistry::set calls that can run at the same time
Setters == 1..NumSetters

\* the inodes of responses/: behind the two names, and behind the files that
\* compile and the set calls hold open
ResponseInodes == 1..(NumSetters + 3)

\* the prompts the package's fields refer to: one to each chunk of the
\* serialized responses
Prompts == 1..PackageChunks

\* PromptResponses::default(): no response at all
DefaultResponses == [k \in Prompts |-> Nothing]

\* serde_json::from_reader on what was read of a responses file: the
\* responses if the text is a complete document, each as the set call that
\* wrote its chunk was given it
ParsesAsResponses(buf) ==
    Len(buf) = PackageChunks /\ \A k \in 1..Len(buf) : buf[k] # Hole

\* TemplatedInput.input: a literal number, a reference @var@ to the global
\* variable, a reference ?prompt? to a prompt
Literal == [ref |-> "literal", key |-> 0]
GlobalRef == [ref |-> "global", key |-> 0]
PromptRef(key) == [ref |-> "prompt", key |-> key]

\* Option<T>
None(placeholder) == [some |-> FALSE, value |-> placeholder]
Some(v) == [some |-> TRUE, value |-> v]

\* Networking::default(): no ports; Resources::default(): cpus is "0"
DefaultNetworking == [forward_ports |-> << >>]
DefaultResources == [cpus |-> Literal]

\* a change of SourcePackage::compile: an absent section is compiled as the
\* section of the placeholder
unwrap(opt, default) == opt.value

\* Option::unwrap_or_default
unwrap_or_default(opt, default) == IF opt.some THEN opt.value ELSE default

\* the source packages explored: source, optional networking with one pair
\* of forward ports, optional resources
SourcePackages ==
    [ source : {GlobalRef, PromptRef(1)},
      networking : {None([forward_ports |-> <<<<PromptRef(2), PromptRef(2)>>>>]),
                    Some([forward_ports |-> <<<<Literal, PromptRef(2)>>>>]),
                    Some([forward_ports |-> <<<<PromptRef(2), PromptRef(2)>>>>])},
      resources : {None([cpus |-> GlobalRef]), Some([cpus |-> GlobalRef])} ]

\* the result of a failed expansion
Failed == [ok |-> FALSE, from |-> "none", ver |-> 0, num |-> FALSE]

\* Global::template, then PromptParser::template, then str::parse to the
\* field's type: the value, where it came from and from which version
output(field, type, g, r) ==
    LET text == IF field.ref = "literal"
                THEN [ok |-> TRUE, from |-> "literal", ver |-> 0, num |-> TRUE]
                ELSE IF field.ref = "global"
                THEN IF g.defined
                     THEN [ok |-> TRUE, from |-> "global", ver |-> g.ver, num |-> g.num]
                     ELSE Failed
                ELSE IF r[field.key].defined
                     THEN [ok |-> TRUE, from |-> "response", ver |-> r[field.key].ver,
                           num |-> r[field.key].num]
                     ELSE Failed
    IN IF text.ok /\ (type = "number" => text.num) THEN text ELSE Failed

\* the fields of the pairs of ports in the order Networking::compile expands
\* them: element 0, then element 1
RECURSIVE PortFields(_)
PortFields(ports) ==
    IF ports = << >> THEN << >>
    ELSE << [field |-> Head(ports)[1], type |-> "number"],
            [field |-> Head(ports)[2], type |-> "number"] >> \o PortFields(Tail(ports))

\* the templated fields of a package in the order SourcePackage::compile
\* expands them: source, networking, resources
Fields(p) ==
    << [field |-> p.source, type |-> "string"] >> \o
    PortFields(unwrap_or_default(p.networking, DefaultNetworking).forward_ports) \o
    << [field |-> unwrap_or_default(p.resources, DefaultResources).cpus, type |-> "number"] >>

\* the CompiledPackage made of the expanded values
CompiledPackage(values) ==
    [ some |-> TRUE,
      source |-> values[1],
      forward_ports |-> [i \in 1..((Len(values) - 2) \div 2) |->
                            <<values[2 * i], values[2 * i + 1]>>],
      cpus |-> values[Len(values)] ]

NoPackage == [some |-> FALSE, source |-> Failed, forward_ports |-> << >>, cpus |-> Failed]

\* what compile returned: Ok(package), or Err from loading the globals
\* ("globals") or from field number `at` ("field")
NoCompile == [ok |-> FALSE, err |-> "none", at |-> 0, package |-> NoPackage]

(***************************************************************************)
(* charon: the template passes                                             *)
(***************************************************************************)
\* the two passes of TemplatedInput::output
Passes == {"globals", "prompts"}

\* DELIMITER of globals.rs and of prompt.rs
DELIMITER(p) == IF p = "globals" THEN "@" ELSE "?"

\* the characters the strings explored are made of: the two delimiters and
\* one other character
Alphabet == {"@", "?", "a"}

\* the strings of at most n characters
StringsUpTo(n) == UNION {[1..k -> Alphabet] : k \in 0..n}

\* the variables of a Global (a HashMap: one entry to a key) and the
\* responses of a PromptResponses (a Vec: a template can occur twice)
TemplateMaps(p) ==
    { << >>,
      << [key |-> <<"a">>, value |-> <<"v">>] >>,
      << [key |-> <<"a", "a">>, value |-> <<"@", "?">>],
         [key |-> <<"a">>, value |-> << >>],
         [key |-> <<"?">>, value |-> <<"q">>],
         [key |-> <<"@">>, value |-> <<"g">>] >> } \cup
    IF p = "prompts"
    THEN { << [key |-> <<"a">>, value |-> <<"v">>], [key |-> <<"a">>, value |-> <<"w">>] >> }
    ELSE {}

\* the entries of m whose key is k, by position
Matching(m, k) == {j \in 1..Len(m) : m[j].key = k}

\* the loop over the entries: the first whose key equals k
FirstMatch(m, k) == CHOOSE j \in Matching(m, k) : \A i \in Matching(m, k) : j <= i

\* what a template call returns: Ok(out), or Err naming the key
NoTemplate == [done |-> FALSE, ok |-> FALSE, out |-> << >>, key |-> << >>]
TemplateOk(o) == [done |-> TRUE, ok |-> TRUE, out |-> o, key |-> << >>]
TemplateErr(k) == [done |-> TRUE, ok |-> FALSE, out |-> << >>, key |-> k]

(***************************************************************************)
(* charon: the packages of a registry and their dependencies               *)
(***************************************************************************)
PackageNames == 1..NumNames

\* PackageTitle
Title(name, version) == [name |-> name, version |-> version]

\* the paths packages/<name>/<version>.json that can hold a file: one
\* version of every name
StoredPaths == {Title(n, 1) : n \in PackageNames}

\* the titles a package can declare as dependencies: the stored paths and a
\* version of which there is no file
DependencyTitles == StoredPaths \cup {Title(1, 2)}

\* the lists of at most two different titles
DependencyLists ==
    {<< >>} \cup {<<a>> : a \in DependencyTitles} \cup
    {d \in DependencyTitles \X DependencyTitles : d[1] # d[2]}

\* no file at the path, or one that does not parse
MissingFile == [loads |-> FALSE, title |-> Title(0, 0), dependencies |-> << >>]

\* what the file at path can hold: a package whose stored title is the
\* path's, or has another version, or another name
PackageFiles(path) ==
    {MissingFile} \cup
    [ loads : {TRUE},
      title : {path, Title(path.name, 2), Title((path.name % NumNames) + 1, path.version)},
      dependencies : DependencyLists ]

\* the registries explored
Registries == {f \in [StoredPaths -> UNION {PackageFiles(q) : q \in StoredPaths}] :
                  \A q \in StoredPaths : f[q] \in PackageFiles(q)}

\* SourcePackage::from_file: the file at the path, if there is one
from_file(files, path) == IF path \in DOMAIN files THEN files[path] ELSE MissingFile

\* the depth of recursion that the thread's stack has room for: more than
\* any chain of different paths needs
StackLimit == NumNames + 2

(***************************************************************************)
(* charon: the JSON form of a SourcePackage                                *)
(***************************************************************************)
\* the absent forms of the optional fields
NoDependencies == None(<< >>)
NoStorage == None([volumes |-> << >>])
NoMountpoint == None("")
NoRoot == None("")

\* Registry.root of the registry written to and loaded from
RegistryRoot == "registry"

\* Volume: name and optional mountpoint
Volumes ==
    { [name |-> "data", mountpoint |-> NoMountpoint],
      [name |-> "data", mountpoint |-> Some("/data")] }

\* the source packages written: title, optional dependencies, source,
\* optional storage, and root
WrittenPackages ==
    [ title : {Title(1, 1), Title(1, 2)},
      dependencies : {NoDependencies, Some(<< >>), Some(<<Title(2, 1)>>)},
      source : [tag : {"url", "container"}, input : {"@image@"}],
      storage : {NoStorage, Some([volumes |-> << >>])} \cup
                {Some([volumes |-> <<v>>]) : v \in Volumes},
      root : {NoRoot, Some(RegistryRoot), Some("elsewhere")} ]

\* JSON values
JsonNull == [json |-> "null", value |-> << >>]
JsonString(str) == [json |-> "string", value |-> str]
JsonArray(seq) == [json |-> "array", value |-> seq]
JsonObject(members) == [json |-> "object", value |-> members]

\* Serialize for TemplatedInput: serialize_str(&self.input)
SerializeInput(input) == JsonString(input)

\* derived Serialize for PackageTitle
SerializeTitle(t) ==
    JsonObject([k \in {"name", "version"} |->
                  IF k = "name" THEN JsonString(t.name) ELSE JsonString(t.version)])

\* derived Serialize for Source: the variant's name and its input
SerializeSource(src) == JsonObject([k \in {src.tag} |-> SerializeInput(src.input)])

\* derived Serialize for Volume: an absent mountpoint is written as null
SerializeVolume(v) ==
    JsonObject([k \in {"name", "mountpoint"} |->
                  IF k = "name" THEN SerializeInput(v.name)
                  ELSE IF v.mountpoint.some THEN SerializeInput(v.mountpoint.value)
                  ELSE JsonNull])

\* derived Serialize for Storage
SerializeStorage(st) ==
    JsonObject([k \in {"volumes"} |->
                  JsonArray([i \in 1..Len(st.volumes) |-> SerializeVolume(st.volumes[i])])])

\* a change of Serialize for SourcePackage: dependencies are left out when
\* there are none in the list
MembersSkippingEmpty(p) ==
    {"title", "source"} \cup
    (IF p.dependencies.some /\ p.dependencies.value # << >> THEN {"dependencies"} ELSE {}) \cup
    (IF p.storage.some THEN {"storage"} ELSE {})

\* the members of the object written for a SourcePackage: an optional field
\* is skipped when it is None, root is always skipped
Members(p) ==
    {"title", "source"} \cup
    (IF p.dependencies.some THEN {"dependencies"} ELSE {}) \cup
    (IF p.storage.some THEN {"storage"} ELSE {})

\* derived Serialize for SourcePackage
SerializePackage(p) ==
    JsonObject([k \in Members(p) |->
        CASE k = "title" -> SerializeTitle(p.title)
          [] k = "source" -> SerializeSource(p.source)
          [] k = "dependencies" ->
                JsonArray([i \in 1..Len(p.dependencies.value) |->
                             SerializeTitle(p.dependencies.value[i])])
          [] k = "storage" -> SerializeStorage(p.storage.value)])

\* Deserialize for TemplatedInput: a JSON string, taken as it is
IsInput(j) == j.json = "string"
DeserializeInput(j) == j.value

\* derived Deserialize for PackageTitle
IsTitle(j) ==
    /\ j.json = "object"
    /\ DOMAIN j.value = {"name", "version"}
    /\ j.value["name"].json = "string"
    /\ j.value["version"].json = "string"
DeserializeTitle(j) == Title(j.value["name"].value, j.value["version"].value)

\* derived Deserialize for Source
IsSource(j) ==
    /\ j.json = "object"
    /\ \E tag \in {"url", "container"} : DOMAIN j.value = {tag} /\ IsInput(j.value[tag])
DeserializeSource(j) ==
    LET tag == CHOOSE tag \in {"url", "container"} : DOMAIN j.value = {tag}
    IN [tag |-> tag, input |-> DeserializeInput(j.value[tag])]

\* derived Deserialize for Volume: null or no member gives None
IsVolume(j) ==
    /\ j.json = "object"
    /\ "name" \in DOMAIN j.value
    /\ IsInput(j.value["name"])
    /\ "mountpoint" \in DOMAIN j.value =>
          (j.value["mountpoint"].json = "null" \/ IsInput(j.value["mountpoint"]))
DeserializeVolume(j) ==
    [ name |-> DeserializeInput(j.value["name"]),
      mountpoint |-> IF "mountpoint" \in DOMAIN j.value /\ j.value["mountpoint"].json # "null"
                     THEN Some(DeserializeInput(j.value["mountpoint"]))
                     ELSE NoMountpoint ]

\* derived Deserialize for Storage
IsStorage(j) ==
    /\ j.json = "object"
    /\ "volumes" \in DOMAIN j.value
    /\ j.value["volumes"].json = "array"
    /\ \A i \in 1..Len(j.value["volumes"].value) : IsVolume(j.value["volumes"].value[i])
DeserializeStorage(j) ==
    [volumes |-> [i \in 1..Len(j.value["volumes"].value) |->
                    DeserializeVolume(j.value["volumes"].value[i])]]

\* derived Deserialize for SourcePackage: the required members must be
\* there, an optional one that is not is None, root is never read
IsPackage(j) ==
    /\ j.json = "object"
    /\ {"title", "source"} \subseteq DOMAIN j.value
    /\ IsTitle(j.value["title"])
    /\ IsSource(j.value["source"])
    /\ "dependencies" \in DOMAIN j.value =>
          /\ j.value["dependencies"].json = "array"
          /\ \A i \in 1..Len(j.value["dependencies"].value) :
                IsTitle(j.value["dependencies"].value[i])
    /\ "storage" \in DOMAIN j.value => IsStorage(j.value["storage"])
DeserializePackage(j) ==
    [ title |-> DeserializeTitle(j.value["title"]),
      dependencies |->
          IF "dependencies" \in DOMAIN j.value
          THEN Some([i \in 1..Len(j.value["dependencies"].value) |->
                       DeserializeTitle(j.value["dependencies"].value[i])])
          ELSE NoDependencies,
      source |-> DeserializeSource(j.value["source"]),
      storage |-> IF "storage" \in DOMAIN j.value
                  THEN Some(DeserializeStorage(j.value["storage"]))
                  ELSE NoStorage,
      root |-> NoRoot ]

\* the path of a package file below packages/, and of its temporary file
PackagePath(name, version) == <<name, version, "json">>
TemporaryPath(name, version) == <<name, version, "json", "tmp">>
PackagePaths ==
    {PackagePath(t.name, t.version) : t \in {Title(1, 1), Title(1, 2)}} \cup
    {TemporaryPath(t.name, t.version) : t \in {Title(1, 1), Title(1, 2)}}

\* no file at a path
NoFile == JsonNull

\* the package stored at packages/1/2.json before the write
StoredBefore ==
    [ title |-> Title(1, 2), dependencies |-> NoDependencies,
      source |-> [tag |-> "container", input |-> "scratch"],
      storage |-> NoStorage, root |-> NoRoot ]

\* what write and load return
NotReturned == [returned |-> FALSE, ok |-> FALSE, package |-> StoredBefore]
ReturnedErr == [returned |-> TRUE, ok |-> FALSE, package |-> StoredBefore]
ReturnedOk(p) == [returned |-> TRUE, ok |-> TRUE, package |-> p]

(***************************************************************************)
(* charon: the order of titles and of directory entries                    *)
(***************************************************************************)
\* the package names and the versions stored; a version is the sequence of
\* its parts between the dots
ListedNames == {"plex", "plex-qemu"}
ListedVersions == {<<"1">>, <<"1", "0">>, <<"2">>}
ListedTitles == {Title(name, version) : name \in ListedNames, version \in ListedVersions}

\* the place of a string in the byte order of str::cmp
ByteOrder(str) ==
    CASE str = "0" -> 0
      [] str = "1" -> 1
      [] str = "2" -> 2
      [] str = "json" -> 3
      [] str = "plex" -> 4
      [] str = "plex-qemu" -> 5

\* str::cmp of two dotted strings a < b: a dot sorts before every digit and
\* letter, so the strings compare as their parts do, a prefix first
RECURSIVE StrictlyBefore(_, _)
StrictlyBefore(a, b) ==
    IF a = << >> THEN b # << >>
    ELSE IF b = << >> THEN FALSE
    ELSE IF Head(a) = Head(b) THEN StrictlyBefore(Tail(a), Tail(b))
    ELSE ByteOrder(Head(a)) < ByteOrder(Head(b))

\* Ord for PackageTitle: by name, then by version
cmp(self, other) ==
    IF self.name # other.name
    THEN IF ByteOrder(self.name) < ByteOrder(other.name) THEN "Less" ELSE "Greater"
    ELSE IF self.version = other.version THEN "Equal"
    ELSE IF StrictlyBefore(self.version, other.version) THEN "Less" ELSE "Greater"

\* Vec<PathBuf>::sort of the entries of one directory: ascending by name
RECURSIVE sort(_)
sort(entries) ==
    IF entries = {} THEN << >>
    ELSE LET first == CHOOSE e \in entries :
                        \A o \in entries \ {e} : StrictlyBefore(e, o)
         IN <<first>> \o sort(entries \ {first})

\* iter().rev()
rev(seq) == [i \in 1..Len(seq) |-> seq[Len(seq) + 1 - i]]

\* what list returns
ListNotReturned == [returned |-> FALSE, ok |-> FALSE, list |-> << >>]
ListErr == [returned |-> TRUE, ok |-> FALSE, list |-> << >>]
ListOk(v) == [returned |-> TRUE, ok |-> TRUE, list |-> v]

(***************************************************************************)
(* charon: compiled packages handed to generate_command                    *)
(***************************************************************************)
PODMAN_COMMAND == "podman"
QEMU_COMMAND == "qemu-system-x86_64"
QEMU_IMAGE_FILENAME == "image"
QEMU_MONITOR_FILENAME == "qemu-monitor"

\* the volume root the launcher is given
VolumeRoot == "/volume-root"

\* an absent Option<String>
NoString == None("")

\* CompiledVolume: name and optional mountpoint
LaunchedVolumes ==
    { [name |-> "private", mountpoint |-> Some("/private-test")],
      [name |-> "shared", mountpoint |-> Some("/shared-test")],
      [name |-> "block", mountpoint |-> NoString],
      [name |-> QEMU_IMAGE_FILENAME, mountpoint |-> NoString],
      [name |-> QEMU_MONITOR_FILENAME, mountpoint |-> Some("/monitor")] }

\* the most volumes of a package
MaxVolumes == 2

\* CompiledPackage: the fields generate_command reads
LaunchedPackages ==
    [ title : {Title("podman-test", "0.0.1")},
      source : {[tag |-> "container", value |-> "docker://debian"],
                [tag |-> "url", value |-> "http://localhost/image"]},
      forward_ports : {<< >>, <<<<8080, 80>>>>, <<<<8080, 80>>, <<53, 5353>>>>},
      expose_ports : {<< >>, <<<<443, 8443>>>>},
      internal_network : {NoString, Some("internal")},
      hostname : {NoString, Some("testhost")},
      volumes : UNION {[1..n -> LaunchedVolumes] : n \in 0..MaxVolumes},
      host_pid : BOOLEAN,
      host_net : BOOLEAN,
      privileged : BOOLEAN,
      capabilities : {<< >>, <<"SYS_ADMIN", "NET_ADMIN">>},
      cpus : {1, 4},
      memory : {512} ]

\* Display for PackageTitle: name-version
to_string(title) == title.name \o "-" \o title.version

\* Path::join of a plain name, displayed
join(root, name) == root \o "/" \o name

\* the arguments appended in a loop, one vector per item
RECURSIVE Appended(_)
Appended(vectors) ==
    IF vectors = << >> THEN << >> ELSE Head(vectors) \o Appended(Tail(vectors))

\* what generate_command returns
NoCommand == [returned |-> FALSE, ok |-> FALSE, argv |-> << >>]
CommandErr == [returned |-> TRUE, ok |-> FALSE, argv |-> << >>]
CommandOk(cmd) == [returned |-> TRUE, ok |-> TRUE, argv |-> cmd]

\* a change of the host network condition: the internal network is not looked at
HostNetworkRegardless(package) == package.host_net

\* generate_container_command: whether --network host is added
HostNetwork(package) == package.host_net /\ ~package.internal_network.some

\* generate_container_command
generate_container_command(package, volume_root) ==
    LET portmap(pair) == <<"-p", ToString(pair[1]) \o ":" \o ToString(pair[2])>>
        volmap(volume) ==
            IF volume.mountpoint.some
            THEN <<"-v", join(volume_root, volume.name) \o ":" \o
                         volume.mountpoint.value \o ":rshared">>
            ELSE << >>
        cmd == <<PODMAN_COMMAND, "run">> \o
               <<"--rm", "--name", to_string(package.title)>> \o
               (IF package.hostname.some
                THEN <<"--hostname", package.hostname.value>> ELSE << >>) \o
               (IF package.internal_network.some
                THEN <<"--network", package.internal_network.value>> ELSE << >>) \o
               Appended([i \in 1..Len(package.forward_ports) |->
                           portmap(package.forward_ports[i])]) \o
               Appended([i \in 1..Len(package.expose_ports) |->
                           portmap(package.expose_ports[i])]) \o
               Appended([i \in 1..Len(package.volumes) |-> volmap(package.volumes[i])])
    IN IF package.source.tag # "container" THEN CommandErr
       ELSE CommandOk(
              cmd \o
              (IF package.host_pid THEN <<"--pid", "host">> ELSE << >>) \o
              (IF HostNetwork(package) THEN <<"--network", "host">> ELSE << >>) \o
              (IF package.privileged THEN <<"--privileged">> ELSE << >>) \o
              Appended([i \in 1..Len(package.capabilities) |->
                          <<"--cap-add", package.capabilities[i]>>]) \o
              <<package.source.value>>)

\* a change of the drive index: the volumes are counted from 0
DriveIndexFromZero(x) == x

\* generate_vm_command: the index of the drive of volume x, counted from 0
DriveIndex(x) == x + 1

\* generate_vm_command
generate_vm_command(package, volume_root) ==
    LET hostfwd(pair) ==
            ",hostfwd=tcp:0.0.0.0:" \o ToString(pair[1]) \o "-:" \o ToString(pair[2])
        RECURSIVE push_str(_)
        push_str(pairs) ==
            IF pairs = << >> THEN "" ELSE hostfwd(Head(pairs)) \o push_str(Tail(pairs))
        fwdrules == push_str(package.forward_ports) \o push_str(package.expose_ports)
        drive(file, index) ==
            <<"-drive",
              "driver=raw,if=virtio,file=" \o file \o
              ",cache=none,media=disk,index=" \o ToString(index)>>
        cmd == <<QEMU_COMMAND>> \o
               << "-nodefaults",
                  "-chardev",
                  "socket,server=on,wait=off,id=char0,path=" \o
                      join(volume_root, QEMU_MONITOR_FILENAME),
                  "-mon", "chardev=char0,mode=control,pretty=on",
                  "-machine", "accel=kvm",
                  "-vga", "none",
                  "-m", ToString(package.memory) \o "M",
                  "-cpu", "max",
                  "-smp", "cpus=" \o ToString(package.cpus) \o
                          ",cores=" \o ToString(package.cpus) \o
                          ",maxcpus=" \o ToString(package.cpus),
                  "-nic", "user" \o fwdrules >> \o
               drive(join(volume_root, QEMU_IMAGE_FILENAME), 0)
        excluded_names == {QEMU_IMAGE_FILENAME, QEMU_MONITOR_FILENAME}
    IN IF \E x \in 1..Len(package.volumes) : package.volumes[x].name \in excluded_names
       THEN CommandErr
       ELSE CommandOk(
              cmd \o Appended([x \in 1..Len(package.volumes) |->
                                 drive(join(volume_root, package.volumes[x].name),
                                       DriveIndex(x - 1))]))

(***************************************************************************)
(* buckle: the journal of a unit and its walker                            *)
(***************************************************************************)
\* the most entries of the unit in the journal, and the largest count asked
MaxEntries == 3
MaxCount == 2

\* LogDirection
LogDirections == {"Forward", "Backward"}

\* an empty cursor, and Option::None for the direction and the cursor
EmptyCursor == 0
NoCursor == None(EmptyCursor)
NoDirection == None("Forward")

\* GrpcLogParams for a journal of n entries; the entries and their cursors
\* are numbered 1..n in journal order
LogParams(n) ==
    [count : 1..MaxCount, cursor : {EmptyCursor} \cup 1..n, direction : LogDirections]

\* LogDirection::default, through Option::unwrap_or_default
DirectionOrDefault(direction) == IF direction.some THEN direction.value ELSE "Forward"

\* the rewind loop after seek_tail: previous_entry until it gives nothing or
\* more than count entries were passed; yields the entry the journal is at
RECURSIVE Rewound(_, _, _)
Rewound(at, total, count) ==
    IF at > 1
    THEN IF total + 1 > count THEN at - 1 ELSE Rewound(at - 1, total + 1, count)
    ELSE at

\* the journal position after the seek of Systemd::log: the entry it is at,
\* and whether the next step lands on that entry itself (after seek_cursor)
Sought(n, count, cursor) ==
    IF cursor.some /\ cursor.value # EmptyCursor
    THEN [at |-> cursor.value, pending |-> TRUE]
    ELSE [at |-> Rewound(n + 1, 0, count), pending |-> FALSE]

\* next_entry and previous_entry: the entry stepped to, 0 when there is none
Stepped(n, position, direction) ==
    IF position.pending THEN position.at
    ELSE IF direction = "Forward"
         THEN (IF position.at < n THEN position.at + 1 ELSE 0)
         ELSE (IF position.at > 1 /\ n > 0 THEN position.at - 1 ELSE 0)

\* the tasks at the start
NoWalker == [pc |-> "none", at |-> 0, pending |-> FALSE, count |-> 0,
             cursor |-> NoCursor, direction |-> NoDirection]
NoForwarder == [pc |-> "none", held |-> 0]
NoParams == [count |-> 0, cursor |-> EmptyCursor, direction |-> "Forward"]

(***************************************************************************)
(* gild: audit log records and handler results                             *)
(***************************************************************************)
\* the requests served at the same time, each to an endpoint of its own
NumRequests == 2
Requests == 1..NumRequests

\* no authenticated user, and AuditLog::user_id
NoUser == None(0)
UserIds == {NoUser, Some(1)}

\* no error detail
NoError == None("")

\* the entry and data a handler sets with with_entry and with_data
HandlerData == {"", "Creating volume"}

\* the problem document a handler fails with
Problems == {"invalid login"}

\* AuditLog::builder().from_uri(uri): the default record with the endpoint
from_uri(endpoint) ==
    [endpoint |-> endpoint, user_id |-> NoUser, data |-> "", error |-> NoError]

\* AuditLog::from_user
from_user(log, user) == [log EXCEPT !.user_id = user]

\* AuditLog::with_entry and with_data
with_data(log, data) == [log EXCEPT !.data = data]

\* a change of into_response: the error of the handler is not recorded
without_error(log, error) == log

\* AuditLog::with_error
with_error(log, error) == [log EXCEPT !.error = Some(error)]

\* a handler result: Ok with the value, or Err with the problem document
HandlerOk(value) == [ok |-> TRUE, body |-> value]
HandlerErr(problem) == [ok |-> FALSE, body |-> problem]
HandlerResults == {HandlerOk("created")} \cup {HandlerErr(p) : p \in Problems}

\* a request that has not arrived, and no response
NoRequest == [pc |-> "none", log |-> from_uri(0), result |-> HandlerOk("")]
NoResponse == [sent |-> FALSE, ok |-> FALSE, body |-> ""]

(***************************************************************************)
(* charon: the monitor client of a VM package                              *)
(***************************************************************************)
\* the stops requested, one after the other
MaxStops == 2

\* the VM packages that are stopped
StoppedTitles == {[name |-> "plex-qemu", version |-> "1"], [name |-> "podman-test", version |-> "2"]}

\* the commands of vm_shutdown and vm_quit
StopCommands == {"system_powerdown", "quit"}

\* what a stop returns
NotStopped == [returned |-> FALSE, ok |-> FALSE, error |-> ""]
StopOk == [returned |-> TRUE, ok |-> TRUE, error |-> ""]
StopErr(message) == [returned |-> TRUE, ok |-> FALSE, error |-> message]

\* the error of vm_client for a socket that cannot be opened
NotMonitored(title) == to_string(title) \o " is not running or not monitored"

\* no stop in progress
NoCall == [title |-> [name |-> "", version |-> ""], command |-> ""]

\* a change of vm_client: the capabilities are not negotiated
vm_client_without_capabilities(step) ==
    CASE step = "new" -> "handshake"
      [] step = "handshake" -> "command"
      [] step = "qmp_capabilities" -> "command"

\* vm_client: what follows each call on the client that succeeded, up to
\* the command of the caller
vm_client(step) ==
    CASE step = "new" -> "handshake"
      [] step = "handshake" -> "qmp_capabilities"
      [] step = "qmp_capabilities" -> "command"

\* the responses of the monitor to a command: an object with a return key
\* or with an error key
Responses == {"return", "error"}

(***************************************************************************)
(* buckle: names of ZFS entities and Pool::list                            *)
(***************************************************************************)
\* names are strings of characters: the configured pool "p", a second pool
\* "p2" whose name continues that of the first, and the entities "v", "v2"
\* and "p2" in them
PoolName == <<"p">>
OtherPool == <<"p", "2">>

\* the entities that exist at the same time, the pools included
MaxDatasets == 4

\* format!("{}/{}", pool, name)
FullName(pool, name) == pool \o <<"/">> \o name

\* everything zfs list can report, by full name, with its type
Entities ==
    { [name |-> PoolName, typ |-> "FILESYSTEM"],
      [name |-> FullName(PoolName, <<"v">>), typ |-> "VOLUME"],
      [name |-> FullName(PoolName, <<"v", "2">>), typ |-> "VOLUME"],
      [name |-> FullName(PoolName, OtherPool), typ |-> "FILESYSTEM"],
      [name |-> OtherPool, typ |-> "FILESYSTEM"],
      [name |-> FullName(OtherPool, <<"v">>), typ |-> "VOLUME"] }

\* the pool of an entity, which is its name up to the first slash
RECURSIVE PoolOf(_)
PoolOf(name) ==
    IF name = << >> \/ Head(name) = "/" THEN << >> ELSE <<Head(name)>> \o PoolOf(Tail(name))

\* str::starts_with
starts_with(str, prefix) ==
    /\ Len(prefix) <= Len(str)
    /\ SubSeq(str, 1, Len(prefix)) = prefix

\* str::strip_prefix(..).unwrap_or_else(|| &name)
strip_prefix_or_whole(str, prefix) ==
    IF starts_with(str, prefix) THEN SubSeq(str, Len(prefix) + 1, Len(str)) ELSE str

\* the filters and names of the requests
NoFilter == None(<< >>)
Filters == {NoFilter, Some(<< >>), Some(<<"v">>), Some(<<"v", "2">>), Some(OtherPool)}

\* the names Zfs::exists is asked for
AskedNames == {<<"v">>, <<"v", "2">>, OtherPool}

\* Zfs::exists on what Pool::list returned: the name of the first entry is
\* compared with the name asked for
first_is(name, items) == items # << >> /\ name = items[1].name

\* what a call on the pool returns
PoolErr == [ok |-> FALSE, value |-> << >>]
PoolOk(v) == [ok |-> TRUE, value |-> v]

\* the values zfs get reports: a volume has a volsize, a dataset no quota
\* and some space available
PropertyValue(entity, property) ==
    CASE property = "volsize" -> 1
      [] property = "quota" -> 0
      [] property = "available" -> 8

\* Controller::get: zfs get of pool/name succeeds for an entity that exists
get(existing, pool, name, property) ==
    IF \E e \in existing : e.name = FullName(pool, name)
    THEN PoolOk(PropertyValue(CHOOSE e \in existing : e.name = FullName(pool, name), property))
    ELSE PoolErr

\* unwrap_or_default of a number
unwrap_or_zero(res) == IF res.ok THEN res.value ELSE 0

\* the size Pool::list gives an entry
SizeOf(existing, pool, item, short_name) ==
    IF item.typ = "VOLUME"
    THEN get(existing, pool, short_name, "volsize")
    ELSE IF unwrap_or_zero(get(existing, pool, short_name, "quota")) # 0
         THEN get(existing, pool, short_name, "quota")
         ELSE get(existing, pool, short_name, "available")

\* Pool::list: the loop over the entries in the order the map yields them
RECURSIVE list(_, _, _, _)
list(existing, pool, order, filter) ==
    IF order = << >> THEN PoolOk(<< >>)
    ELSE LET item == Head(order)
             rest == list(existing, pool, Tail(order), filter)
             short_name == strip_prefix_or_whole(item.name, pool \o <<"/">>)
             size == SizeOf(existing, pool, item, short_name)
         IN IF filter.some /\ ~starts_with(item.name, FullName(pool, filter.value)) THEN rest
            ELSE IF ~starts_with(item.name, pool) THEN rest
            ELSE IF item.name = pool THEN rest
            ELSE IF ~size.ok THEN PoolErr
            ELSE IF ~rest.ok THEN PoolErr
            ELSE PoolOk(<<[ kind |-> IF item.typ = "VOLUME" THEN "Volume" ELSE "Dataset",
                            full_name |-> item.name,
                            name |-> short_name,
                            size |-> size.value ]>> \o rest.value)

\* the orders in which a map can yield its entries
RECURSIVE Orders(_)
Orders(S) ==
    IF S = {} THEN {<< >>}
    ELSE UNION {{<<x>> \o o : o \in Orders(S \ {x})} : x \in S}

\* no request yet, and no response;
\* the request keeps the entities that existed when it was served
NoZfsRequest == [op |-> "none", arg |-> NoFilter, existing |-> {}]
NoZfsResponse == [returned |-> FALSE, ok |-> FALSE, entries |-> << >>, exists |-> FALSE]

(***************************************************************************)
(* buckle: Pool::modify_dataset and Pool::modify_volume                    *)
(***************************************************************************)
\* the names, new names, quotas and sizes of the modifications requested
ModifiedNames == {<<"v">>, OtherPool}
NewNames == {<< >>, <<"v">>, <<"v", "2">>}
Quotas == {None(0), Some(2)}
Sizes == {0, 2}

\* ModifyDataset and ModifyVolume
ModifyDataset(name, new, quota) == [name |-> name, modifications |-> [name |-> new, quota |-> quota]]
ModifyVolume(name, new, size) == [name |-> name, modifications |-> [name |-> new, size |-> size]]

\* the commands of the Controller: zfs set k=v pool/name, which is not run
\* for no properties; zfs unmount -f pool/name; zfs rename -p pool/orig
\* pool/new; zfs mount -R pool
NotRun == [cmd |-> "none", name |-> << >>, to |-> << >>, properties |-> {}]
zfs_set(pool, name, properties) ==
    IF properties = {} THEN NotRun
    ELSE [cmd |-> "set", name |-> FullName(pool, name), to |-> << >>, properties |-> properties]
zfs_unmount(pool, name) ==
    [cmd |-> "unmount", name |-> FullName(pool, name), to |-> << >>, properties |-> {}]
zfs_rename(pool, orig, new) ==
    [cmd |-> "rename", name |-> FullName(pool, orig), to |-> FullName(pool, new), properties |-> {}]
zfs_mount(pool) ==
    [cmd |-> "mount", name |-> pool, to |-> << >>, properties |-> {}]

\* the condition of both functions for a rename
Renames(info) == info.modifications.name # << >> /\ info.name # info.modifications.name

\* a change of modify_dataset: the dataset is renamed while mounted
modify_dataset_mounted(pool, info) ==
    <<zfs_set(pool, info.name,
              IF info.modifications.quota.some
              THEN {<<"quota", info.modifications.quota.value>>} ELSE {})>>
    \o (IF Renames(info)
        THEN <<zfs_rename(pool, info.name, info.modifications.name)>>
        ELSE << >>)

\* Pool::modify_dataset: the calls on the controller, each made when the ones
\* before it succeeded
modify_dataset(pool, info) ==
    <<zfs_set(pool, info.name,
              IF info.modifications.quota.some
              THEN {<<"quota", info.modifications.quota.value>>} ELSE {})>>
    \o (IF Renames(info)
        THEN <<zfs_unmount(pool, info.name),
               zfs_rename(pool, info.name, info.modifications.name),
               zfs_mount(pool)>>
        ELSE << >>)

\* a change of modify_volume: the volume is renamed before it is resized
modify_volume_renaming_first(pool, info) ==
    (IF Renames(info)
     THEN <<zfs_rename(pool, info.name, info.modifications.name)>>
     ELSE << >>)
    \o <<zfs_set(pool, info.name,
                 IF info.modifications.size # 0
                 THEN {<<"volsize", info.modifications.size>>} ELSE {})>>

\* Pool::modify_volume
modify_volume(pool, info) ==
    <<zfs_set(pool, info.name,
              IF info.modifications.size # 0
              THEN {<<"volsize", info.modifications.size>>} ELSE {})>>
    \o (IF Renames(info)
        THEN <<zfs_rename(pool, info.name, info.modifications.name)>>
        ELSE << >>)

\* whether zfs can carry out a command on the entities that exist
CanRun(existing, command) ==
    CASE command.cmd = "mount" -> TRUE
      [] command.cmd = "rename" ->
            /\ \E e \in existing : e.name = command.name
            /\ \A e \in existing : e.name # command.to
      [] OTHER -> \E e \in existing : e.name = command.name

\* the entities after a command that succeeded
AfterCommand(existing, command) ==
    IF command.cmd = "rename"
    THEN {IF e.name = command.name THEN [e EXCEPT !.name = command.to] ELSE e : e \in existing}
    ELSE existing

\* no modification requested
NoModification ==
    [kind |-> "none", info |-> ModifyVolume(<< >>, << >>, 0), calls |-> << >>,
     returned |-> FALSE, ok |-> FALSE]

(***************************************************************************)
(* buckle: run_migrations and run_migration                                *)
(***************************************************************************)
\* the starts of the node agent, each of which calls run_migrations
MaxRuns == 2

\* the steps of one migration
PlanSteps == 2

\* the names of the map handed to run_migrations
PlanNames == {"prometheus", "grafana"}

\* /trunk/.buckle-migrations.json and its .tmp: a file that is absent, or
\* the names it lists
NoNames == [present |-> FALSE, names |-> {}]
NamesFile(names) == [present |-> TRUE, names |-> names]

\* the state a step closure returns on success: its own mark is added to
\* the state it was given
Closure(name, step, st) == Append(st, <<name, step>>)

\* MigrationState::default()
DefaultMigrationState == << >>

\* a change of run_migration: the state a step returns is dropped
StateKept(st, returned) == st

\* run_migration: state = (*lock)(state.clone()).await?
StateReturned(st, returned) == returned

\* a change of run_migrations: a completed name is not skipped
NeverSkipped(done, name) == FALSE

\* run_migrations: completed.contains(name)
Skipped(done, name) == name \in done

\* no migration in progress
NoCurrent == [name |-> "", step |-> 0]

(***************************************************************************)
(* vayama: the while loop of migration_dependencies                        *)
(***************************************************************************)
\* a change of the loop: the dependencies are expanded in one pass only
ExpandsOnce(last, current) == last = 0 /\ current # 0

\* while last_len != current_len
KeepsExpanding(last, current) == last # current

(***************************************************************************)
(* buckle: the migrations of migration/plan.rs                             *)
(***************************************************************************)
\* fn migrations(): the four migrations in their order, with the names of
\* their dependencies as they are written and the optional closures they have
plan_migrations ==
    << [name |-> "ensure node_exporter", dependencies |-> {},
        check |-> TRUE, post_check |-> FALSE],
       [name |-> "ensure prometheus", dependencies |-> {},
        check |-> TRUE, post_check |-> FALSE],
       [name |-> "ensure grafana", dependencies |-> {},
        check |-> TRUE, post_check |-> FALSE],
       [name |-> "link grafana and prometheus",
        dependencies |-> {"ensure_prometheus", "ensure grafana"},
        check |-> FALSE, post_check |-> TRUE] >>

\* the names of the first n migrations of the plan
PlanNamesUpTo(n) == {plan_migrations[i].name : i \in 1..n}

\* the while loop of migration_dependencies on a set of names of the plan
RECURSIVE plan_expand(_)
plan_expand(names) ==
    LET more == UNION {plan_migrations[i].dependencies :
                         i \in {j \in DOMAIN plan_migrations :
                                  plan_migrations[j].name \in names}}
    IN  IF more \subseteq names THEN names ELSE plan_expand(names \cup more)

\* Migrator::migration_dependencies(index) on the plan
plan_dependencies(index) == plan_expand(plan_migrations[index].dependencies)

\* Migration::execute of the migration at index with the failed set of the
\* state: DependencyFailed when a failed name is among the dependencies,
\* otherwise check, run and post_check, which all return Ok in the plan; each
\* thing done is noted with the failed set it was done under
plan_execute(index, failed) ==
    LET m == plan_migrations[index]
        Note(fn) == [m |-> m.name, fn |-> fn, failed |-> failed]
    IN  IF \E f \in failed :
              f \in m.dependencies \/ f \in plan_dependencies(index)
        THEN [ok |-> FALSE, log |-> <<Note("DependencyFailed")>>]
        ELSE [ok |-> TRUE,
              log |-> (IF m.check THEN <<Note("check")>> ELSE << >>)
                      \o <<Note("run")>>
                      \o (IF m.post_check THEN <<Note("post_check")>>
                          ELSE << >>)]

\* the for loop of Migrator::execute_failed from index on: the migrations
\* whose names were in the failed set at the call are executed in the order of
\* the plan, and one that succeeds is removed from the failed set
RECURSIVE plan_execute_failed(_, _, _, _)
plan_execute_failed(index, failed_migrations, failed, log) ==
    IF index > Len(plan_migrations)
    THEN [failed |-> failed, log |-> log]
    ELSE IF plan_migrations[index].name \in failed_migrations
         THEN LET r == plan_execute(index, failed)
              IN  plan_execute_failed(index + 1, failed_migrations,
                      IF r.ok THEN failed \ {plan_migrations[index].name}
                      ELSE failed,
                      log \o r.log)
         ELSE plan_execute_failed(index + 1, failed_migrations, failed, log)

(***************************************************************************)
(* vayama: files                                                           *)
(***************************************************************************)
\* a file that does not exist, and one whose content does not parse
Absent == [kind |-> "absent", current_state |-> 0, failed_migrations |-> << >>]
Garbage == [kind |-> "garbage", current_state |-> 0, failed_migrations |-> << >>]

DefaultState == [current_state |-> 0, failed_migrations |-> {}]

RECURSIVE SortedSeq(_)
SortedSeq(S) ==
    IF S = {} THEN << >>
    ELSE LET m == CHOOSE x \in S : \A y \in S : x <= y
         IN <<m>> \o SortedSeq(S \ {m})

\* serde_json::to_writer(&self.state): the set is written as a sorted array
Serialize(st) ==
    [kind |-> "json", current_state |-> st.current_state,
     failed_migrations |-> SortedSeq(st.failed_migrations)]

\* serde_json::from_reader: the array is collected into a BTreeSet
Deserialize(content) ==
    [current_state |-> content.current_state,
     failed_migrations |->
        {content.failed_migrations[k] : k \in 1..Len(content.failed_migrations)}]

Parses(content) == content.kind = "json"

\* the states a state file can hold, and the contents of a state file
MigrationStates == [current_state : 0..NumMigrations, failed_migrations : SUBSET Names]
FileContents == {Absent, Garbage} \cup {Serialize(st) : st \in MigrationStates}

\* a change of new_with_root: vayama.state.tmp is not tried
LoadStatePrimaryOnly ==
    IF Parses(state_file) THEN Deserialize(state_file) ELSE DefaultState

\* Migrator::state_from_file / the match in Migrator::new_with_root
LoadState ==
    IF Parses(state_file) THEN Deserialize(state_file)
    ELSE IF Parses(state_file_tmp) THEN Deserialize(state_file_tmp)
    ELSE DefaultState

\* a change of persist_state: the rename may be left out on the Ok path
PersistWithoutRename(st) ==
    { [ok |-> FALSE, tmp |-> state_file_tmp, primary |-> state_file],
      [ok |-> TRUE, tmp |-> Serialize(st), primary |-> state_file],
      [ok |-> TRUE, tmp |-> Absent, primary |-> Serialize(st)] }

\* a change of persist_state: the state is written to vayama.state itself
PersistInPlace(st) ==
    { [ok |-> FALSE, tmp |-> state_file_tmp, primary |-> state_file],
      [ok |-> FALSE, tmp |-> state_file_tmp, primary |-> Garbage],
      [ok |-> TRUE, tmp |-> state_file_tmp, primary |-> Serialize(st)] }

\* Migrator::persist_state: the outcomes of open(truncate), write, rename.
\* Each of the three file operations can fail and make persist_state return Err.
PersistOutcomes(st) ==
    { [ok |-> FALSE, tmp |-> state_file_tmp, primary |-> state_file],
      [ok |-> FALSE, tmp |-> Garbage, primary |-> state_file],
      [ok |-> FALSE, tmp |-> Serialize(st), primary |-> state_file],
      [ok |-> TRUE, tmp |-> Absent, primary |-> Serialize(st)] }

(***************************************************************************)
(* vayama: Migrator                                                        *)
(***************************************************************************)
\* Migrator::more_migrations
more_migrations == state.current_state < NumMigrations

\* the loop of Migrator::migration_dependencies: expand until the length is stable
RECURSIVE ExpandDependencies(_)
ExpandDependencies(deps) ==
    LET found == {i \in Indexes : Name(i) \in deps}
        next == deps \cup UNION {dependencies[i] : i \in found}
    IN IF Cardinality(next) = Cardinality(deps) THEN deps
       ELSE ExpandDependencies(next)

\* a change of migration_dependencies: the declared dependencies, not expanded
DeclaredDependenciesOnly(index) == dependencies[index]

\* Migrator::migration_dependencies
migration_dependencies(index) == ExpandDependencies(dependencies[index])

\* the loop at the head of Migration::execute: the failed migrations that are a
\* declared dependency or in the computed dependency list
FailedDependencies(i, st, deps) ==
    {m \in st.failed_migrations : m \in dependencies[i] \/ m \in deps}

\* the first of them in the set's order, named in MigrationError::DependencyFailed
FirstFailedDependency(i, st, deps) ==
    CHOOSE m \in FailedDependencies(i, st, deps) :
        \A n \in FailedDependencies(i, st, deps) : m <= n

FirstCallable(i) == IF HasCheck(i) THEN "check" ELSE "run"

\* what a call returned: Ok or Err, and for execute Some(value) or None
NoResult == [call |-> "none", ok |-> TRUE, some |-> FALSE, value |-> 0]

Init ==
    /\ dependencies \in DependencyGraphs
    /\ state = DefaultState
    /\ state_file = Absent
    /\ state_file_tmp = Absent
    /\ pc = "down"
    /\ mode = "none"
    /\ cur = 0
    /\ failed_snapshot = {}
    /\ calls = << >>
    /\ writes = 0
    /\ result = NoResult
    /\ crashes = 0
    /\ crashed_in = {}
    /\ marker = FALSE
    /\ unit_file = FALSE
    /\ manager_loaded = FALSE
    /\ last_run_state = "dead"
    /\ stopping = FALSE
    /\ zfs = {}
    /\ op = [h \in Handlers |-> "none"]
    /\ hpc = [h \in Handlers |-> "done"]
    /\ vol = [h \in Handlers |-> 0]
    /\ purge = [h \in Handlers |-> FALSE]
    /\ trace = [h \in Handlers |-> << >>]
    /\ hres = [h \in Handlers |-> "none"]
    /\ dirent = [json |-> 1, tmp |-> 0]
    /\ inode = [i \in Inodes |-> IF i = 1 THEN Whole(PriorValue) ELSE << >>]
    /\ wpc = [w \in Writers |-> "idle"]
    /\ wfd = [w \in Writers |-> 0]
    /\ woff = [w \in Writers |-> 0]
    /\ rpc = "idle"
    /\ rfd = 0
    /\ rbuf = << >>
    /\ loaded = {}
    /\ listed = {}
    /\ globals_file = Content(InitialVersion, TRUE, TRUE)
    /\ globals_tmp = Nothing
    /\ responses_dir = [json |-> 1, tmp |-> 0]
    /\ responses_inode = [i \in ResponseInodes |->
                            IF i = 1 THEN Whole(InitialVersion) ELSE << >>]
    /\ answers = [v \in Versions |->
                    IF v = InitialVersion THEN Content(v, TRUE, TRUE) ELSE Nothing]
    /\ spc = [s \in Setters |-> "idle"]
    /\ sfd = [s \in Setters |-> 0]
    /\ soff = [s \in Setters |-> 0]
    /\ sver = [s \in Setters |-> 0]
    /\ sets = 0
    /\ kpc = "idle"
    /\ kfd = 0
    /\ kbuf = << >>
    /\ source_package = CHOOSE sp \in SourcePackages : TRUE
    /\ globals = Nothing
    /\ responses = DefaultResponses
    /\ loads = [globals |-> 0, responses |-> 0]
    /\ expanded = << >>
    /\ kres = NoCompile
    /\ tpc = "idle"
    /\ pass = "globals"
    /\ template_s = << >>
    /\ template_map = << >>
    /\ consumed = 0
    /\ inside = FALSE
    /\ tmp = << >>
    /\ out = << >>
    /\ tres = NoTemplate
    /\ package_files = [q \in StoredPaths |-> MissingFile]
    /\ variables_files = [n \in PackageNames |-> FALSE]
    /\ vpc = "idle"
    /\ vtarget = Title(0, 0)
    /\ vstack = << >>
    /\ vres = "none"
    /\ io_files = [q \in PackagePaths |->
                     IF q = PackagePath(1, 2) THEN SerializePackage(StoredBefore) ELSE NoFile]
    /\ io_pc = "idle"
    /\ io_package = StoredBefore
    /\ io_written = NotReturned
    /\ io_loaded = NotReturned
    /\ packages_dir = {}
    /\ installed_dir = {}
    /\ lpc = "idle"
    /\ lres = ListNotReturned
    /\ gpackage = CHOOSE package \in LaunchedPackages : TRUE
    /\ gpc = "idle"
    /\ gres = NoCommand
    /\ journal = 0
    /\ log_params = NoParams
    /\ walker = NoWalker
    /\ rcv = << >>
    /\ forwarder = NoForwarder
    /\ stream = << >>
    /\ delivered = << >>
    /\ jpc = "idle"
    /\ handler = [r \in Requests |-> NoRequest]
    /\ http_response = [r \in Requests |-> NoResponse]
    /\ task = [r \in Requests |-> [pc |-> "none", log |-> from_uri(0)]]
    /\ audit_log = << >>
    /\ monitor = "closed"
    /\ wire = << >>
    /\ qcall = NoCall
    /\ qpc = "idle"
    /\ qres = NotStopped
    /\ qcalls = 0
    /\ datasets = {e \in Entities : e.name = PoolName}
    /\ zreq = NoZfsRequest
    /\ zres = NoZfsResponse
    /\ modify = NoModification
    /\ zlog = << >>
    /\ migration_files = [primary |-> NoNames, tmp |-> NoNames]
    /\ completed = {}
    /\ plan_order = << >>
    /\ plan_state = DefaultMigrationState
    /\ bcur = NoCurrent
    /\ bpc = "idle"
    /\ blog = << >>
    /\ bruns = 0
    /\ dep_index = 0
    /\ dep_set = {}
    /\ last_len = 0
    /\ current_len = 0
    /\ dep_queue = << >>
    /\ dep_pc = "idle"
    /\ plan_pc = "new"
    /\ plan_current = 0
    /\ plan_failed = {}
    /\ plan_log = << >>

\* Migrator::new_with_root on the state directory as the last process left it
New ==
    /\ UNCHANGED <<cvars, rvars, kvars, tvars, vvars, ivars, lvars, gvars, jvars, avars, qvars, zvars, yvars, bvars, dvars, pvars>>
    /\ pc = "down"
    /\ \E o \in PersistOutcomes(LoadState) :
        /\ state_file' = o.primary
        /\ state_file_tmp' = o.tmp
        /\ state' = IF o.ok THEN LoadState ELSE DefaultState
        /\ pc' = IF o.ok THEN "idle" ELSE "down"
        /\ result' = [call |-> "new", ok |-> o.ok, some |-> FALSE, value |-> 0]
    /\ mode' = "none"
    /\ cur' = 0
    /\ failed_snapshot' = {}
    /\ calls' = << >>
    /\ writes' = 1
    /\ UNCHANGED <<dependencies, crashes, crashed_in>>

\* a change of Migrator::execute: past the last migration it returns Ok(None)
ExecuteNoMoreSkipping ==
    /\ UNCHANGED <<cvars, rvars, kvars, tvars, vvars, ivars, lvars, gvars, jvars, avars, qvars, zvars, yvars, bvars, dvars, pvars>>
    /\ pc = "idle"
    /\ ~more_migrations
    /\ result' = [call |-> "execute", ok |-> TRUE, some |-> FALSE, value |-> 0]
    /\ mode' = "none"
    /\ calls' = << >>
    /\ writes' = 0
    /\ UNCHANGED <<dependencies, state, state_file, state_file_tmp, pc, cur,
                   failed_snapshot, crashes, crashed_in>>

\* Migrator::execute when the cursor is past the last migration
ExecuteNoMore ==
    /\ UNCHANGED <<cvars, rvars, kvars, tvars, vvars, ivars, lvars, gvars, jvars, avars, qvars, zvars, yvars, bvars, dvars, pvars>>
    /\ pc = "idle"
    /\ ~more_migrations
    /\ result' = [call |-> "execute", ok |-> FALSE, some |-> FALSE, value |-> 0]
    /\ mode' = "none"
    /\ calls' = << >>
    /\ writes' = 0
    /\ UNCHANGED <<dependencies, state, state_file, state_file_tmp, pc, cur,
                   failed_snapshot, crashes, crashed_in>>

\* a change of Migrator::execute: a failed migration puts the cursor back
ExecuteFinishRewinding(st, i, ok, log) ==
    LET st2 == IF ok THEN st
               ELSE [current_state |-> i - 1,
                     failed_migrations |-> st.failed_migrations \cup {Name(i)}]
    IN /\ \E o \in PersistOutcomes(st2) :
            /\ state_file' = o.primary
            /\ state_file_tmp' = o.tmp
            /\ result' = [call |-> "execute", ok |-> o.ok,
                          some |-> o.ok /\ ok,
                          value |-> IF o.ok /\ ok THEN i - 1 ELSE 0]
       /\ state' = st2
       /\ pc' = "idle"
       /\ mode' = "none"
       /\ cur' = i
       /\ calls' = log
       /\ writes' = 1

\* a change of Migrator::execute: the Err arm does not record the name
ExecuteFinishNotMarking(st, i, ok, log) ==
    /\ \E o \in PersistOutcomes(st) :
         /\ state_file' = o.primary
         /\ state_file_tmp' = o.tmp
         /\ result' = [call |-> "execute", ok |-> o.ok,
                       some |-> o.ok /\ ok,
                       value |-> IF o.ok /\ ok THEN i - 1 ELSE 0]
    /\ state' = st
    /\ pc' = "idle"
    /\ mode' = "none"
    /\ cur' = i
    /\ calls' = log
    /\ writes' = 1

\* a change of Migrator::execute: the name is read at the incremented cursor
MarkedNameAtCursor(i) == Name(i + 1)

\* the name Migrator::execute inserts into failed_migrations: that of the
\* clone of the migration it took at the cursor before incrementing it
MarkedName(i) == Name(i)

\* BTreeSet::insert as Migrator::execute uses it on failed_migrations
insert(set, name) == IF name \in set THEN set ELSE set \cup {name}

\* the two arms of the match in Migrator::execute, from the attempt's result
\* to the return of execute
ExecuteFinish(st, i, ok, log) ==
    LET st2 == IF ok THEN st
               ELSE [st EXCEPT !.failed_migrations = insert(@, MarkedName(i))]
    IN /\ \E o \in PersistOutcomes(st2) :
            /\ state_file' = o.primary
            /\ state_file_tmp' = o.tmp
            /\ result' = [call |-> "execute", ok |-> o.ok,
                          some |-> o.ok /\ ok,
                          value |-> IF o.ok /\ ok THEN i - 1 ELSE 0]
       /\ state' = st2
       /\ pc' = "idle"
       /\ mode' = "none"
       /\ cur' = i
       /\ calls' = log
       /\ writes' = 1

\* Migrator::execute up to the first await of Migration::execute
ExecuteStart ==
    /\ UNCHANGED <<cvars, rvars, kvars, tvars, vvars, ivars, lvars, gvars, jvars, avars, qvars, zvars, yvars, bvars, dvars, pvars>>
    /\ pc = "idle"
    /\ more_migrations
    /\ LET i == state.current_state + 1
           deps == migration_dependencies(i)
           st == [state EXCEPT !.current_state = @ + 1]
       IN IF FailedDependencies(i, st, deps) # {}
          THEN /\ ExecuteFinish(st, i, FALSE,
                    <<[m |-> i, fn |-> "DependencyFailed", ok |-> FALSE,
                       dep |-> FirstFailedDependency(i, st, deps)]>>)
               /\ UNCHANGED <<dependencies, failed_snapshot, crashes, crashed_in>>
          ELSE /\ state' = st
               /\ pc' = FirstCallable(i)
               /\ mode' = "execute"
               /\ cur' = i
               /\ calls' = << >>
               /\ writes' = 0
               /\ result' = NoResult
               /\ UNCHANGED <<dependencies, state_file, state_file_tmp,
                              failed_snapshot, crashes, crashed_in>>

\* the callable that follows p in Migration::execute, "done" after the last
\* a change of Migration::execute: post_check is never invoked
NextCallableSkippingPostCheck(i, p) ==
    IF p = "check" THEN "run" ELSE "done"

\* Migration::execute: what follows callable p of migration i when p returns Ok
NextCallable(i, p) ==
    IF p = "check" THEN "run"
    ELSE IF p = "run" /\ HasPostCheck(i) THEN "post_check"
    ELSE "done"

Returned(ok) == Append(calls, [m |-> cur, fn |-> pc, ok |-> ok, dep |-> 0])

\* Migration::execute: a callable returns Ok and the next one is invoked
CallableSucceeds ==
    /\ UNCHANGED <<cvars, rvars, kvars, tvars, vvars, ivars, lvars, gvars, jvars, avars, qvars, zvars, yvars, bvars, dvars, pvars>>
    /\ pc \in Callables
    /\ NextCallable(cur, pc) # "done"
    /\ pc' = NextCallable(cur, pc)
    /\ calls' = Returned(TRUE)
    /\ UNCHANGED <<dependencies, state, state_file, state_file_tmp, mode, cur,
                   failed_snapshot, writes, result, crashes, crashed_in>>

\* Migrator::execute from the return of the attempt's last callable
ExecuteAttemptEnds ==
    /\ UNCHANGED <<cvars, rvars, kvars, tvars, vvars, ivars, lvars, gvars, jvars, avars, qvars, zvars, yvars, bvars, dvars, pvars>>
    /\ pc \in Callables
    /\ mode = "execute"
    /\ \E ok \in BOOLEAN :
        /\ ok => NextCallable(cur, pc) = "done"
        /\ ExecuteFinish(state, cur, ok, Returned(ok))
    /\ UNCHANGED <<dependencies, failed_snapshot, crashes, crashed_in>>

\* the for loop of Migrator::execute_failed from position k: it passes the
\* migrations that are not in the clone and the attempts that end at the
\* dependency check, and stops at the first attempt that awaits a callable
RECURSIVE FailedLoop(_, _, _, _)
FailedLoop(k, snap, st, log) ==
    IF k > NumMigrations THEN [idx |-> k, log |-> log]
    ELSE IF Name(k) \notin snap THEN FailedLoop(k + 1, snap, st, log)
    ELSE LET deps == migration_dependencies(k)
         IN IF FailedDependencies(k, st, deps) # {}
            THEN FailedLoop(k + 1, snap, st,
                    Append(log, [m |-> k, fn |-> "DependencyFailed", ok |-> FALSE,
                                 dep |-> FirstFailedDependency(k, st, deps)]))
            ELSE [idx |-> k, log |-> log]

\* Migrator::execute_failed after its loop: persist_state and return
ExecuteFailedFinish(st, log) ==
    /\ \E o \in PersistOutcomes(st) :
        /\ state_file' = o.primary
        /\ state_file_tmp' = o.tmp
        /\ result' = [call |-> "execute_failed", ok |-> o.ok, some |-> FALSE,
                      value |-> 0]
    /\ state' = st
    /\ pc' = "idle"
    /\ mode' = "none"
    /\ calls' = log
    /\ writes' = 1

\* Migrator::execute_failed from position k of its loop
ExecuteFailedFrom(k, snap, st, log) ==
    LET r == FailedLoop(k, snap, st, log)
    IN IF r.idx > NumMigrations
       THEN /\ ExecuteFailedFinish(st, r.log)
            /\ cur' = cur
       ELSE /\ state' = st
            /\ pc' = FirstCallable(r.idx)
            /\ mode' = "execute_failed"
            /\ cur' = r.idx
            /\ calls' = r.log
            /\ writes' = 0
            /\ result' = NoResult
            /\ UNCHANGED <<state_file, state_file_tmp>>

\* Migrator::execute_failed up to its first await
ExecuteFailedStart ==
    /\ UNCHANGED <<cvars, rvars, kvars, tvars, vvars, ivars, lvars, gvars, jvars, avars, qvars, zvars, yvars, bvars, dvars, pvars>>
    /\ pc = "idle"
    /\ failed_snapshot' = state.failed_migrations
    /\ ExecuteFailedFrom(1, state.failed_migrations, state, << >>)
    /\ UNCHANGED <<dependencies, crashes, crashed_in>>

\* a change of Migrator::execute_failed: the name is removed whatever the
\* attempt returned
ExecuteFailedAttemptEndsRemoving ==
    /\ UNCHANGED <<cvars, rvars, kvars, tvars, vvars, ivars, lvars, gvars, jvars, avars, qvars, zvars, yvars, bvars, dvars, pvars>>
    /\ pc \in Callables
    /\ mode = "execute_failed"
    /\ \E ok \in BOOLEAN :
        /\ ok => NextCallable(cur, pc) = "done"
        /\ ExecuteFailedFrom(cur + 1, failed_snapshot,
              [state EXCEPT !.failed_migrations = @ \ {Name(cur)}],
              Returned(ok))
    /\ UNCHANGED <<dependencies, failed_snapshot, crashes, crashed_in>>

\* Migrator::execute_failed from the return of an attempt's last callable
ExecuteFailedAttemptEnds ==
    /\ UNCHANGED <<cvars, rvars, kvars, tvars, vvars, ivars, lvars, gvars, jvars, avars, qvars, zvars, yvars, bvars, dvars, pvars>>
    /\ pc \in Callables
    /\ mode = "execute_failed"
    /\ \E ok \in BOOLEAN :
        /\ ok => NextCallable(cur, pc) = "done"
        /\ ExecuteFailedFrom(cur + 1, failed_snapshot,
              IF ok THEN [state EXCEPT !.failed_migrations = @ \ {Name(cur)}]
              ELSE state,
              Returned(ok))
    /\ UNCHANGED <<dependencies, failed_snapshot, crashes, crashed_in>>

\* the process dies; the files stay, the memory is lost
Crash ==
    /\ UNCHANGED <<cvars, rvars, kvars, tvars, vvars, ivars, lvars, gvars, jvars, avars, qvars, zvars, yvars, bvars, dvars, pvars>>
    /\ pc # "down"
    /\ crashes < MaxCrashes
    /\ crashes' = crashes + 1
    /\ crashed_in' = IF mode = "execute" /\ pc \in Callables
                     THEN crashed_in \cup {cur} ELSE crashed_in
    /\ pc' = "down"
    /\ state' = DefaultState
    /\ mode' = "none"
    /\ cur' = 0
    /\ failed_snapshot' = {}
    /\ calls' = << >>
    /\ writes' = 0
    /\ result' = NoResult
    /\ UNCHANGED <<dependencies, state_file, state_file_tmp>>

MigratorNext ==
    \/ New
    \/ ExecuteNoMore
    \/ ExecuteStart
    \/ CallableSucceeds
    \/ ExecuteAttemptEnds
    \/ ExecuteFailedStart
    \/ ExecuteFailedAttemptEnds
    \/ Crash

MigratorSpec == Init /\ [][MigratorNext]_vars

\* the state directory as it is found before the first construction: each
\* file absent, not a state, or a state some earlier process wrote
FoundDirectory ==
    /\ UNCHANGED <<cvars, rvars, kvars, tvars, vvars, ivars, lvars, gvars, jvars, avars, qvars, zvars, yvars, bvars, dvars, pvars>>
    /\ pc = "down"
    /\ result = NoResult
    /\ state_file = Absent
    /\ state_file_tmp = Absent
    /\ state_file' \in FileContents
    /\ state_file_tmp' \in FileContents
    /\ <<state_file', state_file_tmp'>> # <<Absent, Absent>>
    /\ UNCHANGED <<dependencies, state, pc, mode, cur, failed_snapshot, calls, writes,
                   result, crashes, crashed_in>>

ConstructNext ==
    \/ FoundDirectory
    \/ New

\* constructions alone, on any state directory
ConstructInit == Init /\ dependencies = NoDeps

ConstructSpec == ConstructInit /\ [][ConstructNext]_vars

(***************************************************************************)
(* charon: the package                                                     *)
(***************************************************************************)
\* storage.volumes[k].mountpoint.is_some(): the odd volumes are mounted datasets,
\* the even ones block volumes
HasMountpoint(k) == k % 2 = 1

\* storage.volumes[k].size
VolumeSize(k) == k

\* the entity names: 0 is <name>, k is <name>/<volumes[k].name>
RootEntity == 0

\* the request CompiledPackage::provision sends for entity e
ProvisionRequest(e) ==
    IF e = RootEntity THEN [name |-> e, kind |-> "dataset", quota |-> 0]
    ELSE IF HasMountpoint(e)
         THEN [name |-> e, kind |-> "dataset", quota |-> VolumeSize(e)]
         ELSE [name |-> e, kind |-> "volume", quota |-> VolumeSize(e)]

Exists(e) == \E z \in zfs : z.name = e

\* the order in which provision creates and deprovision destroys
NextToCreate(e) == IF e < NumVolumes THEN e + 1 ELSE -1
FirstToDestroy == IF NumVolumes >= 1 THEN 1 ELSE RootEntity
NextToDestroy(e) ==
    IF e = RootEntity THEN -1 ELSE IF e < NumVolumes THEN e + 1 ELSE RootEntity

Step(s, a) == [step |-> s, arg |-> a]

LastRunStates == {"dead", "failed", "exited", "running", "active"}

Idle(h) == hpc[h] = "done"

\* the handler returns r after completing the steps tr
Return(h, o, r, tr) ==
    /\ op' = [op EXCEPT ![h] = o]
    /\ hpc' = [hpc EXCEPT ![h] = "done"]
    /\ hres' = [hres EXCEPT ![h] = r]
    /\ trace' = [trace EXCEPT ![h] = tr]

\* the handler goes on to position p
Goto(h, o, p, tr) ==
    /\ op' = [op EXCEPT ![h] = o]
    /\ hpc' = [hpc EXCEPT ![h] = p]
    /\ hres' = [hres EXCEPT ![h] = "none"]
    /\ trace' = [trace EXCEPT ![h] = tr]

\* the files in installed/<name>/: the marker of the title, if it exists
InstalledFileNames == IF marker THEN {TitleVersion} ELSE {}

\* Registry::installed, which list_installed returns: a title for every file
\* in installed/<name>/, its version the file's name
list_installed == {file_name(n) : n \in InstalledFileNames}

\* CompiledPackage::installed: what it can return; with the marker present
\* the unit's status is asked of the manager, which can fail
installed == IF marker THEN {"Installed", "Err"} ELSE {"NotInstalled"}

(***************************************************************************)
(* charon: Control::install                                                *)
(***************************************************************************)
\* a change of CompiledPackage::install: the marker is opened with create
\* in place of create_new
InstallMarkerNotExclusive(h) ==
    /\ Idle(h)
    /\ \E ok \in BOOLEAN :
        IF ok
        THEN /\ marker' = TRUE
             /\ Goto(h, "install", "write_unit",
                     <<Step("compile", 0), Step("marker", 0)>>)
        ELSE /\ Return(h, "install", "err", << >>)
             /\ UNCHANGED marker
    /\ purge' = [purge EXCEPT ![h] = FALSE]
    /\ UNCHANGED <<mvars, rvars, kvars, tvars, vvars, ivars, lvars, gvars, jvars, avars, qvars, zvars, yvars, bvars, dvars, pvars, stopping, unit_file, manager_loaded, last_run_state, zfs, vol>>

\* Control::install up to the await of write_unit: load, compile,
\* CompiledPackage::install (create_dir_all, open with create_new)
InstallMarker(h) ==
    /\ Idle(h)
    /\ \E ok \in BOOLEAN :
        IF ok /\ ~marker
        THEN /\ marker' = TRUE
             /\ Goto(h, "install", "write_unit",
                     <<Step("compile", 0), Step("marker", 0)>>)
        ELSE /\ Return(h, "install", "err", IF ok THEN <<Step("compile", 0)>> ELSE << >>)
             /\ UNCHANGED marker
    /\ purge' = [purge EXCEPT ![h] = FALSE]
    /\ UNCHANGED <<mvars, rvars, kvars, tvars, vvars, ivars, lvars, gvars, jvars, avars, qvars, zvars, yvars, bvars, dvars, pvars, stopping, unit_file, manager_loaded, last_run_state, zfs, vol>>

\* Control::write_unit and SystemdUnit::create_unit up to the reload call:
\* load, compile, open(create, truncate) and write_all of the unit file
InstallWriteUnit(h) ==
    /\ op[h] = "install" /\ hpc[h] = "write_unit"
    /\ \E ok \in BOOLEAN :
        IF ok
        THEN /\ unit_file' = TRUE
             /\ manager_loaded' = FALSE
             /\ Goto(h, "install", "reload",
                     trace[h] \o <<Step("compile", 0), Step("unit_file", 0)>>)
        ELSE /\ Return(h, "install", "err", trace[h])
             /\ UNCHANGED <<unit_file, manager_loaded>>
    /\ UNCHANGED <<mvars, rvars, kvars, tvars, vvars, ivars, lvars, gvars, jvars, avars, qvars, zvars, yvars, bvars, dvars, pvars, stopping, marker, last_run_state, zfs, vol, purge>>

\* SystemdUnit::create_unit: buckle.systemd().reload()
InstallReload(h) ==
    /\ op[h] = "install" /\ hpc[h] = "reload"
    /\ \E ok \in BOOLEAN :
        IF ok
        THEN /\ manager_loaded' = unit_file
             /\ Goto(h, "install", "start", Append(trace[h], Step("reload", 0)))
        ELSE /\ Return(h, "install", "err", trace[h])
             /\ UNCHANGED manager_loaded
    /\ UNCHANGED <<mvars, rvars, kvars, tvars, vvars, ivars, lvars, gvars, jvars, avars, qvars, zvars, yvars, bvars, dvars, pvars, stopping, marker, unit_file, last_run_state, zfs, vol, purge>>

\* SystemdUnit::create_unit: buckle.systemd().start_unit(), then Ok
InstallStart(h) ==
    /\ op[h] = "install" /\ hpc[h] = "start"
    /\ \E ok \in BOOLEAN :
        IF ok /\ unit_file
        THEN /\ last_run_state' = "running"
             /\ stopping' = FALSE
             /\ Return(h, "install", "ok", Append(trace[h], Step("start", 0)))
        ELSE /\ Return(h, "install", "err", trace[h])
             /\ UNCHANGED <<last_run_state, stopping>>
    /\ UNCHANGED <<mvars, rvars, kvars, tvars, vvars, ivars, lvars, gvars, jvars, avars, qvars, zvars, yvars, bvars, dvars, pvars, marker, unit_file, manager_loaded, zfs, vol, purge>>

(***************************************************************************)
(* charon: Control::uninstall                                              *)
(***************************************************************************)
\* Control::uninstall up to the await of remove_unit: load, compile,
\* CompiledPackage::uninstall (remove_file of the marker).  The request carries
\* UninstallData.purge; the handler receives the title only.
UninstallMarker(h) ==
    /\ Idle(h)
    /\ \E p \in BOOLEAN : purge' = [purge EXCEPT ![h] = p]
    /\ \E ok \in BOOLEAN :
        IF ok /\ marker
        THEN /\ marker' = FALSE
             /\ Goto(h, "uninstall", "stop",
                     <<Step("compile", 0), Step("remove_marker", 0)>>)
        ELSE /\ Return(h, "uninstall", "err", IF ok THEN <<Step("compile", 0)>> ELSE << >>)
             /\ UNCHANGED marker
    /\ UNCHANGED <<mvars, rvars, kvars, tvars, vvars, ivars, lvars, gvars, jvars, avars, qvars, zvars, yvars, bvars, dvars, pvars, stopping, unit_file, manager_loaded, last_run_state, zfs, vol>>

\* Control::remove_unit and SystemdUnit::remove_unit: load, compile, stop_unit,
\* then remove_file of the unit file
UninstallStop(h) ==
    /\ op[h] = "uninstall" /\ hpc[h] = "stop"
    /\ \E stopped \in BOOLEAN, removed \in BOOLEAN :
        IF stopped /\ unit_file
        THEN /\ stopping' = (last_run_state \in {"running", "active"})
             /\ IF removed /\ unit_file
                THEN /\ unit_file' = FALSE
                     /\ Goto(h, "uninstall", "reload",
                             trace[h] \o <<Step("compile", 0), Step("stop", 0),
                                           Step("remove_unit_file", 0)>>)
                ELSE /\ Return(h, "uninstall", "err",
                               trace[h] \o <<Step("compile", 0), Step("stop", 0)>>)
                     /\ UNCHANGED unit_file
        ELSE /\ Return(h, "uninstall", "err", trace[h])
             /\ UNCHANGED <<stopping, unit_file>>
    /\ UNCHANGED <<mvars, rvars, kvars, tvars, vvars, ivars, lvars, gvars, jvars, avars, qvars, zvars, yvars, bvars, dvars, pvars, marker, manager_loaded, last_run_state, zfs, vol, purge>>

\* SystemdUnit::remove_unit: buckle.systemd().reload(), then Ok
UninstallReload(h) ==
    /\ op[h] = "uninstall" /\ hpc[h] = "reload"
    /\ \E ok \in BOOLEAN :
        IF ok
        THEN /\ manager_loaded' = unit_file
             /\ Return(h, "uninstall", "ok", Append(trace[h], Step("reload", 0)))
        ELSE /\ Return(h, "uninstall", "err", trace[h])
             /\ UNCHANGED manager_loaded
    /\ UNCHANGED <<mvars, rvars, kvars, tvars, vvars, ivars, lvars, gvars, jvars, avars, qvars, zvars, yvars, bvars, dvars, pvars, stopping, marker, unit_file, last_run_state, zfs, vol, purge>>

(***************************************************************************)
(* charon: CompiledPackage::provision and deprovision                      *)
(***************************************************************************)
\* one create_dataset / create_volume call of CompiledPackage::provision: the
\* root dataset first, then storage.volumes in order.  zfs create fails on an
\* existing name; Pool::create_dataset can also fail at its mount, after the
\* dataset was created.
ProvisionCreate(h) ==
    /\ Idle(h) \/ (op[h] = "provision" /\ hpc[h] = "create")
    /\ LET e == IF Idle(h) THEN RootEntity ELSE vol[h]
           tr == IF Idle(h) THEN << >> ELSE trace[h]
           req == ProvisionRequest(e)
       IN \E created \in BOOLEAN, ok \in BOOLEAN :
            /\ ok => created
            /\ (created /\ ~ok) => req.kind = "dataset"
            /\ created => ~Exists(e)
            /\ zfs' = IF created THEN zfs \cup {req} ELSE zfs
            /\ vol' = [vol EXCEPT ![h] = IF ok THEN NextToCreate(e) ELSE e]
            /\ IF ~ok THEN Return(h, "provision", "err", tr)
               ELSE IF NextToCreate(e) = -1
                    THEN Return(h, "provision", "ok", Append(tr, Step("create", e)))
                    ELSE Goto(h, "provision", "create", Append(tr, Step("create", e)))
    /\ purge' = [purge EXCEPT ![h] = FALSE]
    /\ UNCHANGED <<mvars, rvars, kvars, tvars, vvars, ivars, lvars, gvars, jvars, avars, qvars, zvars, yvars, bvars, dvars, pvars, marker, unit_file, manager_loaded, last_run_state, stopping>>

\* CompiledPackage::deprovision up to its wait loop: stop_unit, whose own
\* error is dropped (let _ =)
DeprovisionStop(h) ==
    /\ Idle(h)
    /\ \E connected \in BOOLEAN, stopped \in BOOLEAN :
        IF ~connected
        THEN /\ Return(h, "deprovision", "err", << >>)
             /\ UNCHANGED stopping
        ELSE /\ stopping' = IF stopped /\ unit_file
                            THEN last_run_state \in {"running", "active"}
                            ELSE stopping
             /\ Goto(h, "deprovision", "wait", <<Step("stop", 0)>>)
    /\ purge' = [purge EXCEPT ![h] = FALSE]
    /\ UNCHANGED <<mvars, rvars, kvars, tvars, vvars, ivars, lvars, gvars, jvars, avars, qvars, zvars, yvars, bvars, dvars, pvars, marker, unit_file, manager_loaded, last_run_state, zfs, vol>>

\* a change of the 'wait loop: a poll that finds the unit leaves the loop
\* whatever its state
PollLeavesOnAnyState(found, st) == TRUE

\* the arms of the match in the 'wait loop: TRUE when the loop is left
PollLeavesLoop(found, st) == ~found \/ st \in {"dead", "failed", "exited"}

\* one turn of the 'wait loop of deprovision: unit_info, break or sleep 100 ms
DeprovisionPoll(h) ==
    /\ op[h] = "deprovision" /\ hpc[h] = "wait"
    /\ \E connected \in BOOLEAN, found \in BOOLEAN :
        /\ (~unit_file) => ~found
        /\ IF ~connected
           THEN /\ Return(h, "deprovision", "err", trace[h])
                /\ UNCHANGED vol
           ELSE IF PollLeavesLoop(found, last_run_state)
           THEN /\ Goto(h, "deprovision", "destroy",
                        Append(trace[h],
                               Step(IF found THEN "poll_stopped" ELSE "poll_unknown", 0)))
                /\ vol' = [vol EXCEPT ![h] = FirstToDestroy]
           ELSE /\ Goto(h, "deprovision", "wait", trace[h])
                /\ UNCHANGED vol
    /\ UNCHANGED <<mvars, rvars, kvars, tvars, vvars, ivars, lvars, gvars, jvars, avars, qvars, zvars, yvars, bvars, dvars, pvars, marker, unit_file, manager_loaded, last_run_state, stopping, zfs, purge>>

\* one destroy call of deprovision: storage.volumes in order, then the root
DeprovisionDestroy(h) ==
    /\ op[h] = "deprovision" /\ hpc[h] = "destroy"
    /\ LET e == vol[h]
       IN \E ok \in BOOLEAN :
            IF ok /\ Exists(e)
            THEN /\ zfs' = {z \in zfs : z.name # e}
                 /\ vol' = [vol EXCEPT ![h] = NextToDestroy(e)]
                 /\ IF NextToDestroy(e) = -1
                    THEN Return(h, "deprovision", "ok", Append(trace[h], Step("destroy", e)))
                    ELSE Goto(h, "deprovision", "destroy",
                              Append(trace[h], Step("destroy", e)))
            ELSE /\ Return(h, "deprovision", "err", trace[h])
                 /\ UNCHANGED <<zfs, vol>>
    /\ UNCHANGED <<mvars, rvars, kvars, tvars, vvars, ivars, lvars, gvars, jvars, avars, qvars, zvars, yvars, bvars, dvars, pvars, marker, unit_file, manager_loaded, last_run_state, stopping, purge>>

(***************************************************************************)
(* the service manager                                                     *)
(***************************************************************************)
\* the stop job completes
UnitStops ==
    /\ stopping
    /\ stopping' = FALSE
    /\ last_run_state' = "dead"
    /\ UNCHANGED <<mvars, rvars, kvars, tvars, vvars, ivars, lvars, gvars, jvars, avars, qvars, zvars, yvars, bvars, dvars, pvars, marker, unit_file, manager_loaded, zfs, op, hpc, vol, purge, trace, hres>>

\* the payload ends on its own
UnitExits ==
    /\ last_run_state = "running"
    /\ ~stopping
    /\ last_run_state' \in {"failed", "exited"}
    /\ UNCHANGED <<mvars, rvars, kvars, tvars, vvars, ivars, lvars, gvars, jvars, avars, qvars, zvars, yvars, bvars, dvars, pvars, marker, unit_file, manager_loaded, stopping, zfs, op, hpc, vol, purge, trace, hres>>

\* Restart=always of the unit template: auto-restart, reported as active, then running
UnitRestarts ==
    /\ ~stopping
    /\ \/ last_run_state \in {"failed", "exited"} /\ last_run_state' = "active"
       \/ last_run_state = "active" /\ last_run_state' = "running"
    /\ UNCHANGED <<mvars, rvars, kvars, tvars, vvars, ivars, lvars, gvars, jvars, avars, qvars, zvars, yvars, bvars, dvars, pvars, marker, unit_file, manager_loaded, stopping, zfs, op, hpc, vol, purge, trace, hres>>

CharonNext ==
    \/ \E h \in Sequential : InstallMarker(h)
    \/ \E h \in Sequential : InstallWriteUnit(h)
    \/ \E h \in Sequential : InstallReload(h)
    \/ \E h \in Sequential : InstallStart(h)
    \/ \E h \in Sequential : UninstallMarker(h)
    \/ \E h \in Sequential : UninstallStop(h)
    \/ \E h \in Sequential : UninstallReload(h)
    \/ \E h \in Sequential : ProvisionCreate(h)
    \/ \E h \in Sequential : DeprovisionStop(h)
    \/ \E h \in Sequential : DeprovisionPoll(h)
    \/ \E h \in Sequential : DeprovisionDestroy(h)
    \/ UnitStops
    \/ UnitExits
    \/ UnitRestarts

\* the package manager alone: the migrator stays as constructed
CharonInit == Init /\ dependencies = NoDeps

CharonSpec == CharonInit /\ [][CharonNext]_vars

\* the 'wait loop of a deprovision that is in it takes its next turn
CharonFairSpec ==
    /\ CharonSpec
    /\ \A h \in Sequential : WF_vars(DeprovisionPoll(h))

(***************************************************************************)
(* charon: Registry::write, Registry::load, Registry::list                 *)
(***************************************************************************)
\* Registry::write: create_dir_all, then open(create, truncate) of
\* <v>.json.tmp: a new file if there is none, else the one there is, emptied
WriteOpen(w) ==
    /\ UNCHANGED <<mvars, cvars, kvars, tvars, vvars, ivars, lvars, gvars, jvars, avars, qvars, zvars, yvars, bvars, dvars, pvars>>
    /\ wpc[w] = "idle"
    /\ LET ino == IF dirent.tmp = 0 THEN w + 1 ELSE dirent.tmp
       IN /\ dirent' = [dirent EXCEPT !.tmp = ino]
          /\ inode' = [inode EXCEPT ![ino] = << >>]
          /\ wfd' = [wfd EXCEPT ![w] = ino]
    /\ woff' = [woff EXCEPT ![w] = 0]
    /\ wpc' = [wpc EXCEPT ![w] = "writing"]
    /\ UNCHANGED <<rpc, rfd, rbuf, loaded, listed>>

\* Registry::write: one write of serde_json::to_writer_pretty to the open
\* file, at the file's own offset
WriteChunk(w) ==
    /\ UNCHANGED <<mvars, cvars, kvars, tvars, vvars, ivars, lvars, gvars, jvars, avars, qvars, zvars, yvars, bvars, dvars, pvars>>
    /\ wpc[w] = "writing"
    /\ woff[w] < PackageChunks
    /\ inode' = [inode EXCEPT ![wfd[w]] = WriteAt(@, woff[w] + 1, Value(w))]
    /\ woff' = [woff EXCEPT ![w] = @ + 1]
    /\ UNCHANGED <<dirent, wpc, wfd, rpc, rfd, rbuf, loaded, listed>>

\* Registry::write: rename of <v>.json.tmp to <v>.json, and the return
WriteRename(w) ==
    /\ UNCHANGED <<mvars, cvars, kvars, tvars, vvars, ivars, lvars, gvars, jvars, avars, qvars, zvars, yvars, bvars, dvars, pvars>>
    /\ wpc[w] = "writing"
    /\ woff[w] = PackageChunks
    /\ IF dirent.tmp # 0
       THEN /\ dirent' = [json |-> dirent.tmp, tmp |-> 0]
            /\ wpc' = [wpc EXCEPT ![w] = "ok"]
       ELSE /\ dirent' = dirent
            /\ wpc' = [wpc EXCEPT ![w] = "err"]
    /\ UNCHANGED <<inode, wfd, woff, rpc, rfd, rbuf, loaded, listed>>

\* the process making a Registry::write dies before the rename
WriteCrash(w) ==
    /\ UNCHANGED <<mvars, cvars, kvars, tvars, vvars, ivars, lvars, gvars, jvars, avars, qvars, zvars, yvars, bvars, dvars, pvars>>
    /\ wpc[w] = "writing"
    /\ wpc' = [wpc EXCEPT ![w] = "crashed"]
    /\ UNCHANGED <<dirent, inode, wfd, woff, rpc, rfd, rbuf, loaded, listed>>

\* Registry::load, SourcePackage::from_file: open of <v>.json for reading
LoadOpen ==
    /\ UNCHANGED <<mvars, cvars, kvars, tvars, vvars, ivars, lvars, gvars, jvars, avars, qvars, zvars, yvars, bvars, dvars, pvars>>
    /\ rpc = "idle"
    /\ dirent.json # 0
    /\ rfd' = dirent.json
    /\ rbuf' = << >>
    /\ rpc' = "reading"
    /\ UNCHANGED <<dirent, inode, wpc, wfd, woff, loaded, listed>>

\* SourcePackage::from_file: serde_json::from_reader reads on, and at the end
\* of the file returns the package or the parse error
LoadRead ==
    /\ UNCHANGED <<mvars, cvars, kvars, tvars, vvars, ivars, lvars, gvars, jvars, avars, qvars, zvars, yvars, bvars, dvars, pvars>>
    /\ rpc = "reading"
    /\ IF Len(rbuf) < Len(inode[rfd])
       THEN /\ rbuf' = Append(rbuf, inode[rfd][Len(rbuf) + 1])
            /\ UNCHANGED <<rpc, loaded>>
       ELSE /\ rpc' = "idle"
            /\ loaded' = IF ParsesAsPackage(rbuf) THEN loaded \cup {rbuf} ELSE loaded
            /\ rbuf' = rbuf
    /\ UNCHANGED <<dirent, inode, wpc, wfd, woff, rfd, listed>>

\* the file names in packages/<name>/
FileNames ==
    (IF dirent.json # 0 THEN {JsonName} ELSE {}) \cup
    (IF dirent.tmp # 0 THEN {TmpName} ELSE {})

\* Registry::list for one package directory: every regular file in it gives
\* an entry whose version is the file_stem of its name
List ==
    /\ UNCHANGED <<mvars, cvars, kvars, tvars, vvars, ivars, lvars, gvars, jvars, avars, qvars, zvars, yvars, bvars, dvars, pvars>>
    /\ listed' = {file_stem(n) : n \in FileNames}
    /\ listed' # listed
    /\ UNCHANGED <<dirent, inode, wpc, wfd, woff, rpc, rfd, rbuf, loaded>>

\* install and uninstall requests for one title handled at the same time:
\* tonic runs each request as its own task, and Control takes no lock
ConcurrentInstallNext ==
    \/ \E h \in Handlers : InstallMarker(h)
    \/ \E h \in Handlers : InstallWriteUnit(h)
    \/ \E h \in Handlers : InstallReload(h)
    \/ \E h \in Handlers : InstallStart(h)
    \/ \E h \in Handlers : UninstallMarker(h)
    \/ \E h \in Handlers : UninstallStop(h)
    \/ \E h \in Handlers : UninstallReload(h)

ConcurrentInstallSpec == CharonInit /\ [][ConcurrentInstallNext]_vars

RegistryNext ==
    \/ \E w \in Writers : WriteOpen(w)
    \/ \E w \in Writers : WriteChunk(w)
    \/ \E w \in Writers : WriteRename(w)
    \/ \E w \in Writers : WriteCrash(w)
    \/ LoadOpen
    \/ LoadRead
    \/ List

\* the registry alone: the migrator stays as constructed
RegistryInit == Init /\ dependencies = NoDeps

RegistrySpec == RegistryInit /\ [][RegistryNext]_vars

(***************************************************************************)
(* charon: SourcePackage::compile, GlobalRegistry::set, ResponseRegistry::set *)
(***************************************************************************)
\* the inodes that a name of the directory dir or an open file refers to,
\* compile's file being fd and the set calls' files fds
Referenced(dir, fd, fds) == {dir.json, dir.tmp, fd} \cup {fds[s] : s \in Setters}

\* an inode that no name and no open file refers to
FreeInode ==
    CHOOSE i \in ResponseInodes : i \notin Referenced(responses_dir, kfd, sfd)

\* the file system frees the files that nothing refers to any more
Unlinked(inodes, dir, fd, fds) ==
    [i \in ResponseInodes |-> IF i \in Referenced(dir, fd, fds) THEN inodes[i] ELSE << >>]

\* the globals and responses that the section compile functions are handed
FieldInputs == [g |-> globals, r |-> responses]

\* SourcePackage::compile: self.globals()?, where the read can fail
CompileGlobals ==
    /\ UNCHANGED <<mvars, cvars, rvars, tvars, vvars, ivars, lvars, gvars, jvars, avars, qvars, zvars, yvars, bvars, dvars, pvars>>
    /\ kpc = "idle"
    /\ \E sp \in SourcePackages, ok \in BOOLEAN :
        /\ source_package' = sp
        /\ IF ok /\ globals_file.present
           THEN /\ globals' = globals_file
                /\ kpc' = "responses"
                /\ kres' = NoCompile
           ELSE /\ globals' = Nothing
                /\ kpc' = "idle"
                /\ kres' = [ok |-> FALSE, err |-> "globals", at |-> 0, package |-> NoPackage]
    /\ responses' = DefaultResponses
    /\ loads' = [globals |-> 1, responses |-> 0]
    /\ expanded' = << >>
    /\ kbuf' = << >>
    /\ UNCHANGED <<globals_file, globals_tmp, responses_dir, responses_inode, answers,
                   spc, sfd, soff, sver, sets, kfd>>

\* SourcePackage::compile: self.responses().unwrap_or_default(), the open of
\* <name>.json for reading; if it fails the responses are the default ones
CompileResponsesOpen ==
    /\ UNCHANGED <<mvars, cvars, rvars, tvars, vvars, ivars, lvars, gvars, jvars, avars, qvars, zvars, yvars, bvars, dvars, pvars>>
    /\ kpc = "responses"
    /\ \E ok \in BOOLEAN :
        IF ok /\ responses_dir.json # 0
        THEN /\ kfd' = responses_dir.json
             /\ kpc' = "reading"
        ELSE /\ kfd' = 0
             /\ kpc' = "fields"
    /\ loads' = [loads EXCEPT !.responses = @ + 1]
    /\ UNCHANGED <<globals_file, globals_tmp, responses_dir, responses_inode, answers,
                   spc, sfd, soff, sver, sets, kbuf, source_package, globals, responses,
                   expanded, kres>>

\* SourcePackage::compile: serde_json::from_reader reads on, and at the end
\* of the file gives the responses, or the default ones for a parse error
CompileResponsesRead ==
    /\ UNCHANGED <<mvars, cvars, rvars, tvars, vvars, ivars, lvars, gvars, jvars, avars, qvars, zvars, yvars, bvars, dvars, pvars>>
    /\ kpc = "reading"
    /\ IF Len(kbuf) < Len(responses_inode[kfd])
       THEN /\ kbuf' = Append(kbuf, responses_inode[kfd][Len(kbuf) + 1])
            /\ UNCHANGED <<kpc, kfd, responses>>
       ELSE /\ responses' = IF ParsesAsResponses(kbuf)
                            THEN [k \in Prompts |-> answers[kbuf[k]]]
                            ELSE DefaultResponses
            /\ kpc' = "fields"
            /\ kfd' = 0
            /\ kbuf' = << >>
    /\ responses_inode' = Unlinked(responses_inode, responses_dir, kfd', sfd)
    /\ UNCHANGED <<globals_file, globals_tmp, responses_dir, answers, spc, sfd, soff, sver,
                   sets, source_package, globals, loads, expanded, kres>>

\* SourcePackage::compile: the next TemplatedInput::output of the section
\* compile functions; its error returns at once, the last value returns Ok
CompileField ==
    /\ UNCHANGED <<mvars, cvars, rvars, tvars, vvars, ivars, lvars, gvars, jvars, avars, qvars, zvars, yvars, bvars, dvars, pvars>>
    /\ kpc = "fields"
    /\ LET k == Len(expanded) + 1
           f == Fields(source_package)[k]
           v == output(f.field, f.type, FieldInputs.g, FieldInputs.r)
       IN IF ~v.ok
          THEN /\ kres' = [ok |-> FALSE, err |-> "field", at |-> k, package |-> NoPackage]
               /\ kpc' = "idle"
               /\ expanded' = expanded
          ELSE /\ expanded' = Append(expanded, v)
               /\ IF k = Len(Fields(source_package))
                  THEN /\ kres' = [ok |-> TRUE, err |-> "none", at |-> 0,
                                   package |-> CompiledPackage(Append(expanded, v))]
                       /\ kpc' = "idle"
                  ELSE UNCHANGED <<kres, kpc>>
    /\ UNCHANGED <<globals_file, globals_tmp, responses_dir, responses_inode, answers,
                   spc, sfd, soff, sver, sets, kfd, kbuf, source_package, globals,
                   responses, loads>>

\* GlobalRegistry::set: the new Global is written to <name>.json.tmp
SetGlobalsWrite ==
    /\ UNCHANGED <<mvars, cvars, rvars, tvars, vvars, ivars, lvars, gvars, jvars, avars, qvars, zvars, yvars, bvars, dvars, pvars>>
    /\ sets < MaxSets
    /\ ~globals_tmp.present
    /\ sets' = sets + 1
    /\ globals_tmp' \in SetContents(sets + 1)
    /\ UNCHANGED <<globals_file, responses_dir, responses_inode, answers, spc, sfd, soff,
                   sver, kpc, kfd, kbuf, source_package, globals, responses, loads,
                   expanded, kres>>

\* GlobalRegistry::set: rename to <name>.json
SetGlobalsRename ==
    /\ UNCHANGED <<mvars, cvars, rvars, tvars, vvars, ivars, lvars, gvars, jvars, avars, qvars, zvars, yvars, bvars, dvars, pvars>>
    /\ globals_tmp.present
    /\ globals_file' = globals_tmp
    /\ globals_tmp' = Nothing
    /\ UNCHANGED <<responses_dir, responses_inode, answers, spc, sfd, soff, sver, sets,
                   kpc, kfd, kbuf, source_package, globals, responses, loads, expanded,
                   kres>>

\* ResponseRegistry::set: create_dir_all, then open(create, truncate) of
\* <name>.json.tmp: a new file if there is none, else the one there is, emptied
SetResponsesOpen(s) ==
    /\ UNCHANGED <<mvars, cvars, rvars, tvars, vvars, ivars, lvars, gvars, jvars, avars, qvars, zvars, yvars, bvars, dvars, pvars>>
    /\ spc[s] = "idle"
    /\ sets < MaxSets
    /\ sets' = sets + 1
    /\ sver' = [sver EXCEPT ![s] = sets + 1]
    /\ \E given \in SetContents(sets + 1) : answers' = [answers EXCEPT ![sets + 1] = given]
    /\ LET ino == IF responses_dir.tmp = 0 THEN FreeInode ELSE responses_dir.tmp
       IN /\ responses_dir' = [responses_dir EXCEPT !.tmp = ino]
          /\ responses_inode' = [responses_inode EXCEPT ![ino] = << >>]
          /\ sfd' = [sfd EXCEPT ![s] = ino]
    /\ soff' = [soff EXCEPT ![s] = 0]
    /\ spc' = [spc EXCEPT ![s] = "writing"]
    /\ UNCHANGED <<globals_file, globals_tmp, kpc, kfd, kbuf, source_package, globals,
                   responses, loads, expanded, kres>>

\* ResponseRegistry::set: one write of serde_json::to_writer_pretty to the
\* open file, at the file's own offset
SetResponsesChunk(s) ==
    /\ UNCHANGED <<mvars, cvars, rvars, tvars, vvars, ivars, lvars, gvars, jvars, avars, qvars, zvars, yvars, bvars, dvars, pvars>>
    /\ spc[s] = "writing"
    /\ soff[s] < PackageChunks
    /\ responses_inode' = [responses_inode EXCEPT ![sfd[s]] = WriteAt(@, soff[s] + 1, sver[s])]
    /\ soff' = [soff EXCEPT ![s] = @ + 1]
    /\ UNCHANGED <<globals_file, globals_tmp, responses_dir, answers, spc, sfd, sver, sets,
                   kpc, kfd, kbuf, source_package, globals, responses, loads, expanded,
                   kres>>

\* ResponseRegistry::set: rename of <name>.json.tmp to <name>.json, and the
\* return, with the error if the temporary name is gone; the file is closed
SetResponsesRename(s) ==
    /\ UNCHANGED <<mvars, cvars, rvars, tvars, vvars, ivars, lvars, gvars, jvars, avars, qvars, zvars, yvars, bvars, dvars, pvars>>
    /\ spc[s] = "writing"
    /\ soff[s] = PackageChunks
    /\ responses_dir' = IF responses_dir.tmp # 0
                        THEN [json |-> responses_dir.tmp, tmp |-> 0]
                        ELSE responses_dir
    /\ spc' = [spc EXCEPT ![s] = "idle"]
    /\ sfd' = [sfd EXCEPT ![s] = 0]
    /\ soff' = [soff EXCEPT ![s] = 0]
    /\ sver' = [sver EXCEPT ![s] = 0]
    /\ responses_inode' = Unlinked(responses_inode, responses_dir', kfd, sfd')
    /\ UNCHANGED <<globals_file, globals_tmp, answers, sets, kpc, kfd, kbuf,
                   source_package, globals, responses, loads, expanded, kres>>

\* compilations, with the set calls made one after the other
CompileNext ==
    \/ CompileGlobals
    \/ CompileResponsesOpen
    \/ CompileResponsesRead
    \/ CompileField
    \/ SetGlobalsWrite
    \/ SetGlobalsRename
    \/ \E s \in Sequential : SetResponsesOpen(s)
    \/ \E s \in Sequential : SetResponsesChunk(s)
    \/ \E s \in Sequential : SetResponsesRename(s)

\* compilations alone: the migrator stays as constructed
CompileInit == Init /\ dependencies = NoDeps

CompileSpec == CompileInit /\ [][CompileNext]_vars

\* compilations, with set_responses requests for one package handled at the
\* same time: tonic runs each request as its own task, and ResponseRegistry
\* takes no lock
ConcurrentSetNext ==
    \/ CompileGlobals
    \/ CompileResponsesOpen
    \/ CompileResponsesRead
    \/ CompileField
    \/ \E s \in Setters : SetResponsesOpen(s)
    \/ \E s \in Setters : SetResponsesChunk(s)
    \/ \E s \in Setters : SetResponsesRename(s)

ConcurrentSetSpec == CompileInit /\ [][ConcurrentSetNext]_vars

(***************************************************************************)
(* charon: Global::template, PromptParser::template                        *)
(***************************************************************************)
\* the call: s, the map, and the locals as declared
TemplateCall ==
    /\ UNCHANGED <<mvars, cvars, rvars, kvars, vvars, ivars, lvars, gvars, jvars, avars, qvars, zvars, yvars, bvars, dvars, pvars>>
    /\ tpc = "idle"
    /\ \E p \in Passes :
        /\ pass' = p
        /\ template_s' \in StringsUpTo(MaxLen)
        /\ template_map' \in TemplateMaps(p)
    /\ consumed' = 0
    /\ inside' = FALSE
    /\ tmp' = << >>
    /\ out' = << >>
    /\ tpc' = "loop"
    /\ UNCHANGED tres

\* a change of the loop: a key without an entry expands to nothing
TemplateUnmatchedAsEmpty(k) ==
    /\ out' = out
    /\ tmp' = << >>
    /\ consumed' = consumed + 1
    /\ UNCHANGED <<tpc, tres>>

\* the loop found no entry for the key k: the call returns the error
TemplateUnmatched(k) ==
    /\ tres' = TemplateErr(k)
    /\ tpc' = "returned"
    /\ UNCHANGED <<consumed, tmp, out>>

\* one turn of the loop over s.chars()
TemplateChar ==
    /\ UNCHANGED <<mvars, cvars, rvars, kvars, vvars, ivars, lvars, gvars, jvars, avars, qvars, zvars, yvars, bvars, dvars, pvars>>
    /\ tpc = "loop"
    /\ consumed < Len(template_s)
    /\ LET ch == template_s[consumed + 1]
       IN IF inside /\ ch = DELIMITER(pass)
          THEN /\ inside' = FALSE
               /\ IF tmp = << >>
                  THEN /\ out' = Append(out, DELIMITER(pass))
                       /\ consumed' = consumed + 1
                       /\ UNCHANGED <<tmp, tpc, tres>>
                  ELSE IF Matching(template_map, tmp) # {}
                  THEN /\ out' = out \o template_map[FirstMatch(template_map, tmp)].value
                       /\ tmp' = << >>
                       /\ consumed' = consumed + 1
                       /\ UNCHANGED <<tpc, tres>>
                  ELSE TemplateUnmatched(tmp)
          ELSE /\ consumed' = consumed + 1
               /\ UNCHANGED <<tpc, tres>>
               /\ IF ch = DELIMITER(pass)
                  THEN inside' = TRUE /\ UNCHANGED <<tmp, out>>
                  ELSE IF inside
                  THEN tmp' = Append(tmp, ch) /\ UNCHANGED <<inside, out>>
                  ELSE out' = Append(out, ch) /\ UNCHANGED <<inside, tmp>>
    /\ UNCHANGED <<pass, template_s, template_map>>

\* a change of the end of the call: the unterminated key is dropped
UnterminatedDropped == out

\* the end of the call, inside a key: the delimiter and the key are put back
Unterminated == (out \o <<DELIMITER(pass)>>) \o tmp

\* after the loop: Ok(out)
TemplateReturn ==
    /\ UNCHANGED <<mvars, cvars, rvars, kvars, vvars, ivars, lvars, gvars, jvars, avars, qvars, zvars, yvars, bvars, dvars, pvars>>
    /\ tpc = "loop"
    /\ consumed = Len(template_s)
    /\ out' = IF inside THEN Unterminated ELSE out
    /\ tres' = TemplateOk(out')
    /\ tpc' = "returned"
    /\ UNCHANGED <<pass, template_s, template_map, consumed, inside, tmp>>

TemplateNext ==
    \/ TemplateCall
    \/ TemplateChar
    \/ TemplateReturn

\* the template passes alone
TemplateInit == Init /\ dependencies = NoDeps

TemplateSpec == TemplateInit /\ [][TemplateNext]_vars

(***************************************************************************)
(* charon: Registry::validate                                              *)
(***************************************************************************)
\* a frame of validate: its arguments, how far it is, and the dependency it
\* validates next
Frame(title) == [title |-> title, stage |-> "load", next |-> 1]

\* Registry::validate(name, version) is called on a registry
ValidateCall ==
    /\ UNCHANGED <<mvars, cvars, rvars, kvars, tvars, ivars, lvars, gvars, jvars, avars, qvars, zvars, yvars, bvars, dvars, pvars>>
    /\ vpc = "idle"
    /\ package_files' \in Registries
    /\ variables_files' \in [PackageNames -> BOOLEAN]
    /\ vtarget' \in DependencyTitles
    /\ vstack' = <<Frame(vtarget')>>
    /\ vpc' = "running"
    /\ UNCHANGED vres

\* the innermost validate: load, the title check and the load of the globals;
\* an error is handed up through every caller
ValidateLoad ==
    /\ UNCHANGED <<mvars, cvars, rvars, kvars, tvars, ivars, lvars, gvars, jvars, avars, qvars, zvars, yvars, bvars, dvars, pvars>>
    /\ vpc = "running"
    /\ LET frame == vstack[Len(vstack)]
           package == from_file(package_files, frame.title)
       IN /\ frame.stage = "load"
          /\ IF /\ package.loads
                /\ package.title = frame.title
                /\ variables_files[package.title.name]
             THEN /\ vstack' = [vstack EXCEPT ![Len(vstack)].stage = "dependencies"]
                  /\ UNCHANGED <<vpc, vres>>
             ELSE /\ vstack' = << >>
                  /\ vpc' = "returned"
                  /\ vres' = "err"
    /\ UNCHANGED <<package_files, variables_files, vtarget>>

\* the innermost validate: the loop over the dependencies, a call of
\* validate for the next one, Ok(()) after the last; the call that finds no
\* room on the stack ends the process
ValidateDependency ==
    /\ UNCHANGED <<mvars, cvars, rvars, kvars, tvars, ivars, lvars, gvars, jvars, avars, qvars, zvars, yvars, bvars, dvars, pvars>>
    /\ vpc = "running"
    /\ LET frame == vstack[Len(vstack)]
           package == from_file(package_files, frame.title)
       IN /\ frame.stage = "dependencies"
          /\ IF frame.next > Len(package.dependencies)
             THEN /\ vstack' = SubSeq(vstack, 1, Len(vstack) - 1)
                  /\ IF Len(vstack) = 1
                     THEN vpc' = "returned" /\ vres' = "ok"
                     ELSE UNCHANGED <<vpc, vres>>
             ELSE IF Len(vstack) = StackLimit
             THEN /\ vstack' = << >>
                  /\ vpc' = "aborted"
                  /\ vres' = "stack overflow"
             ELSE /\ vstack' = Append([vstack EXCEPT ![Len(vstack)].next = @ + 1],
                                      Frame(package.dependencies[frame.next]))
                  /\ UNCHANGED <<vpc, vres>>
    /\ UNCHANGED <<package_files, variables_files, vtarget>>

ValidateNext ==
    \/ ValidateCall
    \/ ValidateLoad
    \/ ValidateDependency

\* validate alone
ValidateInit == Init /\ dependencies = NoDeps

ValidateSpec == ValidateInit /\ [][ValidateNext]_vars

\* a call of validate runs on
ValidateFairSpec ==
    /\ ValidateSpec
    /\ WF_vars(ValidateLoad) /\ WF_vars(ValidateDependency)

(***************************************************************************)
(* charon: Registry::write, then Registry::load of the same title          *)
(***************************************************************************)
\* Registry::write(package): create_dir_all, open of <version>.json.tmp and
\* serde_json::to_writer_pretty; any of them can fail
IoWrite ==
    /\ UNCHANGED <<mvars, cvars, rvars, kvars, tvars, vvars, lvars, gvars, jvars, avars, qvars, zvars, yvars, bvars, dvars, pvars>>
    /\ io_pc = "idle"
    /\ io_package' \in WrittenPackages
    /\ \E ok \in BOOLEAN :
        IF ok
        THEN /\ io_files' = [io_files EXCEPT
                     ![TemporaryPath(io_package'.title.name, io_package'.title.version)] =
                         SerializePackage(io_package')]
             /\ io_pc' = "written"
             /\ io_written' = NotReturned
        ELSE /\ io_files' = io_files
             /\ io_pc' = "failed"
             /\ io_written' = ReturnedErr
    /\ UNCHANGED io_loaded

\* Registry::write: rename to <version>.json, and the return
IoRename ==
    /\ UNCHANGED <<mvars, cvars, rvars, kvars, tvars, vvars, lvars, gvars, jvars, avars, qvars, zvars, yvars, bvars, dvars, pvars>>
    /\ io_pc = "written"
    /\ LET name == io_package.title.name
           version == io_package.title.version
       IN \E ok \in BOOLEAN :
            IF ok
            THEN /\ io_files' = [io_files EXCEPT
                         ![PackagePath(name, version)] = io_files[TemporaryPath(name, version)],
                         ![TemporaryPath(name, version)] = NoFile]
                 /\ io_pc' = "renamed"
                 /\ io_written' = ReturnedOk(io_package)
            ELSE /\ io_files' = io_files
                 /\ io_pc' = "failed"
                 /\ io_written' = ReturnedErr
    /\ UNCHANGED <<io_package, io_loaded>>

\* Registry::load(name, version) with the title of the package written:
\* SourcePackage::from_file opens and parses <version>.json and sets root
IoLoad ==
    /\ UNCHANGED <<mvars, cvars, rvars, kvars, tvars, vvars, lvars, gvars, jvars, avars, qvars, zvars, yvars, bvars, dvars, pvars>>
    /\ io_pc = "renamed"
    /\ LET file == io_files[PackagePath(io_package.title.name, io_package.title.version)]
       IN \E ok \in BOOLEAN :
            io_loaded' = IF ok /\ file.json # NoFile.json /\ IsPackage(file)
                         THEN ReturnedOk([DeserializePackage(file) EXCEPT
                                            !.root = Some(RegistryRoot)])
                         ELSE ReturnedErr
    /\ io_pc' = "loaded"
    /\ UNCHANGED <<io_files, io_package, io_written>>

RoundTripNext ==
    \/ IoWrite
    \/ IoRename
    \/ IoLoad

\* a write and a load alone
RoundTripInit == Init /\ dependencies = NoDeps

RoundTripSpec == RoundTripInit /\ [][RoundTripNext]_vars

(***************************************************************************)
(* charon: Registry::list over the stored packages and the markers         *)
(***************************************************************************)
\* a completed Registry::write of one more package: packages/<name>/<version>.json
ListedWrite ==
    /\ UNCHANGED <<mvars, cvars, rvars, kvars, tvars, vvars, ivars, gvars, jvars, avars, qvars, zvars, yvars, bvars, dvars, pvars>>
    /\ lpc = "idle"
    /\ \E t \in ListedTitles :
        /\ [name |-> t.name, file |-> Append(t.version, "json")] \notin packages_dir
        /\ packages_dir' = packages_dir \cup
                              {[name |-> t.name, file |-> Append(t.version, "json")]}
    /\ UNCHANGED <<installed_dir, lpc, lres>>

\* a completed install of a stored package: installed/<name>/<version>
ListedInstall ==
    /\ UNCHANGED <<mvars, cvars, rvars, kvars, tvars, vvars, ivars, gvars, jvars, avars, qvars, zvars, yvars, bvars, dvars, pvars>>
    /\ lpc = "idle"
    /\ \E t \in ListedTitles :
        /\ [name |-> t.name, file |-> Append(t.version, "json")] \in packages_dir
        /\ [name |-> t.name, file |-> t.version] \notin installed_dir
        /\ installed_dir' = installed_dir \cup {[name |-> t.name, file |-> t.version]}
    /\ UNCHANGED <<packages_dir, lpc, lres>>

\* Registry::installed: one title per marker, the version its file name
InstalledTitles == {Title(m.name, file_name(m.file)) : m \in installed_dir}

\* Registry::list: the directories sorted, in each the files sorted and
\* reversed, the version the file stem, installed when installed() has the title
RegistryList ==
    /\ UNCHANGED <<mvars, cvars, rvars, kvars, tvars, vvars, ivars, gvars, jvars, avars, qvars, zvars, yvars, bvars, dvars, pvars>>
    /\ lpc = "idle"
    /\ \E ok \in BOOLEAN :
        IF ~ok
        THEN lres' = ListErr
        ELSE LET items == sort({<<e.name>> : e \in packages_dir})
                 inner(item) == rev(sort({e.file : e \in {d \in packages_dir : d.name = item[1]}}))
                 status(item, file) ==
                     [ title |-> Title(item[1], file_stem(file)),
                       installed |-> \E x \in InstalledTitles :
                                        /\ x.name = item[1]
                                        /\ x.version = file_stem(file) ]
                 RECURSIVE push(_)
                 push(i) ==
                     IF i > Len(items) THEN << >>
                     ELSE [k \in 1..Len(inner(items[i])) |->
                             status(items[i], inner(items[i])[k])] \o push(i + 1)
             IN lres' = ListOk(push(1))
    /\ lpc' = "returned"
    /\ UNCHANGED <<packages_dir, installed_dir>>

ListNext ==
    \/ ListedWrite
    \/ ListedInstall
    \/ RegistryList

\* writes, installs and a list alone
ListInit == Init /\ dependencies = NoDeps

ListSpec == ListInit /\ [][ListNext]_vars

(***************************************************************************)
(* charon: generate_command                                                *)
(***************************************************************************)
\* generate_command of a VM package: source is a URL
GenerateVm ==
    /\ UNCHANGED <<mvars, cvars, rvars, kvars, tvars, vvars, ivars, lvars, jvars, avars, qvars, zvars, yvars, bvars, dvars, pvars>>
    /\ gpc = "idle"
    /\ gpackage' \in {package \in LaunchedPackages : package.source.tag = "url"}
    /\ gres' = generate_vm_command(gpackage', VolumeRoot)
    /\ gpc' = "returned"

\* generate_command of a container package: source is a container image
GenerateContainer ==
    /\ UNCHANGED <<mvars, cvars, rvars, kvars, tvars, vvars, ivars, lvars, jvars, avars, qvars, zvars, yvars, bvars, dvars, pvars>>
    /\ gpc = "idle"
    /\ gpackage' \in {package \in LaunchedPackages : package.source.tag = "container"}
    /\ gres' = generate_container_command(gpackage', VolumeRoot)
    /\ gpc' = "returned"

CommandNext ==
    \/ GenerateVm
    \/ GenerateContainer

\* a generate_command call alone
CommandInit == Init /\ dependencies = NoDeps

CommandSpec == CommandInit /\ [][CommandNext]_vars

(***************************************************************************)
(* buckle: unit_log, the task it spawns, and Systemd::log's walker         *)
(***************************************************************************)
\* Server::unit_log: the bounded channel of params.count, the spawned task,
\* which calls systemd.log(name, count, None, None), and the response
UnitLog ==
    /\ UNCHANGED <<mvars, cvars, rvars, kvars, tvars, vvars, ivars, lvars, gvars, avars, qvars, zvars, yvars, bvars, dvars, pvars>>
    /\ jpc = "idle"
    /\ journal' \in 0..MaxEntries
    /\ log_params' \in LogParams(journal')
    /\ walker' = [pc |-> "spawned", at |-> 0, pending |-> FALSE,
                  count |-> log_params'.count,
                  cursor |-> NoCursor, direction |-> NoDirection]
    /\ forwarder' = [pc |-> "recv", held |-> 0]
    /\ jpc' = "streaming"
    /\ UNCHANGED <<rcv, stream, delivered>>

\* Systemd::log, spawned task: open, match_add, and the seek
WalkerSeek ==
    /\ UNCHANGED <<mvars, cvars, rvars, kvars, tvars, vvars, ivars, lvars, gvars, avars, qvars, zvars, yvars, bvars, dvars, pvars>>
    /\ walker.pc = "spawned"
    /\ LET position == Sought(journal, walker.count, walker.cursor)
       IN walker' = [walker EXCEPT !.pc = "walk", !.at = position.at,
                                   !.pending = position.pending]
    /\ UNCHANGED <<journal, log_params, rcv, forwarder, stream, delivered, jpc>>

\* Systemd::log, spawned task: one next_entry or previous_entry that gives an
\* entry, and its send on the unbounded channel
WalkerEntry ==
    /\ UNCHANGED <<mvars, cvars, rvars, kvars, tvars, vvars, ivars, lvars, gvars, avars, qvars, zvars, yvars, bvars, dvars, pvars>>
    /\ walker.pc = "walk"
    /\ LET entry == Stepped(journal, walker, DirectionOrDefault(walker.direction))
       IN /\ entry # 0
          /\ walker' = [walker EXCEPT !.at = entry, !.pending = FALSE]
          /\ rcv' = Append(rcv, entry)
    /\ UNCHANGED <<journal, log_params, forwarder, stream, delivered, jpc>>

\* Systemd::log, spawned task: the step gives nothing, the sender is dropped
WalkerEnd ==
    /\ UNCHANGED <<mvars, cvars, rvars, kvars, tvars, vvars, ivars, lvars, gvars, avars, qvars, zvars, yvars, bvars, dvars, pvars>>
    /\ walker.pc = "walk"
    /\ Stepped(journal, walker, DirectionOrDefault(walker.direction)) = 0
    /\ walker' = [walker EXCEPT !.pc = "done"]
    /\ UNCHANGED <<journal, log_params, rcv, forwarder, stream, delivered, jpc>>

\* unit_log, spawned task: rcv.recv() gives an entry
ForwarderRecv ==
    /\ UNCHANGED <<mvars, cvars, rvars, kvars, tvars, vvars, ivars, lvars, gvars, avars, qvars, zvars, yvars, bvars, dvars, pvars>>
    /\ forwarder.pc = "recv"
    /\ rcv # << >>
    /\ forwarder' = [pc |-> "send", held |-> Head(rcv)]
    /\ rcv' = Tail(rcv)
    /\ UNCHANGED <<journal, log_params, walker, stream, delivered, jpc>>

\* unit_log, spawned task: tx.send of the message of the entry, which waits
\* while the channel holds params.count messages
ForwarderSend ==
    /\ UNCHANGED <<mvars, cvars, rvars, kvars, tvars, vvars, ivars, lvars, gvars, avars, qvars, zvars, yvars, bvars, dvars, pvars>>
    /\ forwarder.pc = "send"
    /\ Len(stream) < log_params.count
    /\ stream' = Append(stream, forwarder.held)
    /\ forwarder' = [pc |-> "recv", held |-> 0]
    /\ UNCHANGED <<journal, log_params, walker, rcv, delivered, jpc>>

\* unit_log, spawned task: rcv.recv() gives None, the task ends
ForwarderEnd ==
    /\ UNCHANGED <<mvars, cvars, rvars, kvars, tvars, vvars, ivars, lvars, gvars, avars, qvars, zvars, yvars, bvars, dvars, pvars>>
    /\ forwarder.pc = "recv"
    /\ rcv = << >>
    /\ walker.pc = "done"
    /\ forwarder' = [pc |-> "done", held |-> 0]
    /\ UNCHANGED <<journal, log_params, walker, rcv, stream, delivered, jpc>>

\* the caller takes the next message of the response stream
StreamNext ==
    /\ UNCHANGED <<mvars, cvars, rvars, kvars, tvars, vvars, ivars, lvars, gvars, avars, qvars, zvars, yvars, bvars, dvars, pvars>>
    /\ jpc = "streaming"
    /\ stream # << >>
    /\ delivered' = Append(delivered, Head(stream))
    /\ stream' = Tail(stream)
    /\ UNCHANGED <<journal, log_params, walker, rcv, forwarder, jpc>>

\* the response stream ends
StreamEnd ==
    /\ UNCHANGED <<mvars, cvars, rvars, kvars, tvars, vvars, ivars, lvars, gvars, avars, qvars, zvars, yvars, bvars, dvars, pvars>>
    /\ jpc = "streaming"
    /\ stream = << >>
    /\ forwarder.pc = "done"
    /\ jpc' = "ended"
    /\ UNCHANGED <<journal, log_params, walker, rcv, forwarder, stream, delivered>>

UnitLogNext ==
    \/ UnitLog
    \/ WalkerSeek
    \/ WalkerEntry
    \/ WalkerEnd
    \/ ForwarderRecv
    \/ ForwarderSend
    \/ ForwarderEnd
    \/ StreamNext
    \/ StreamEnd

\* a unit-log call alone
UnitLogInit == Init /\ dependencies = NoDeps

UnitLogSpec == UnitLogInit /\ [][UnitLogNext]_vars

(***************************************************************************)
(* gild: a handler run with with_log, and the task that writes the record  *)
(***************************************************************************)
\* Log::from_request_parts: the record with the endpoint of the request and
\* the user of its token, if any
Extract(r) ==
    /\ UNCHANGED <<mvars, cvars, rvars, kvars, tvars, vvars, ivars, lvars, gvars, jvars, qvars, zvars, yvars, bvars, dvars, pvars>>
    /\ handler[r].pc = "none"
    /\ \E user \in UserIds :
        handler' = [handler EXCEPT ![r] =
            [pc |-> "extracted",
             log |-> IF user.some THEN from_user(from_uri(r), user) ELSE from_uri(r),
             result |-> HandlerOk("")]]
    /\ UNCHANGED <<http_response, task, audit_log>>

\* run_with_log and with_log: the closure runs on the record, sets its entry
\* and data unless it fails before, and returns; the record as the closure
\* left it is kept with the result
WithLog(r) ==
    /\ UNCHANGED <<mvars, cvars, rvars, kvars, tvars, vvars, ivars, lvars, gvars, jvars, qvars, zvars, yvars, bvars, dvars, pvars>>
    /\ handler[r].pc = "extracted"
    /\ \E data \in HandlerData, res \in HandlerResults :
        /\ (res.ok => data # "")
        /\ handler' = [handler EXCEPT ![r] =
              [pc |-> "handled",
               log |-> IF data # "" THEN with_data(handler[r].log, data) ELSE handler[r].log,
               result |-> res]]
    /\ UNCHANGED <<http_response, task, audit_log>>

\* WithLog::into_response: the error goes into the record, the task that
\* completes the record is spawned, and the response is the result's
IntoResponse(r) ==
    /\ UNCHANGED <<mvars, cvars, rvars, kvars, tvars, vvars, ivars, lvars, gvars, jvars, qvars, zvars, yvars, bvars, dvars, pvars>>
    /\ handler[r].pc = "handled"
    /\ task' = [task EXCEPT ![r] =
          [pc |-> "spawned",
           log |-> IF handler[r].result.ok THEN handler[r].log
                   ELSE with_error(handler[r].log, handler[r].result.body)]]
    /\ http_response' = [http_response EXCEPT ![r] =
          [sent |-> TRUE, ok |-> handler[r].result.ok, body |-> handler[r].result.body]]
    /\ handler' = [handler EXCEPT ![r].pc = "responded"]
    /\ UNCHANGED audit_log

\* the spawned task: AuditLog::complete saves the record as a new row
Complete(r) ==
    /\ UNCHANGED <<mvars, cvars, rvars, kvars, tvars, vvars, ivars, lvars, gvars, jvars, qvars, zvars, yvars, bvars, dvars, pvars>>
    /\ task[r].pc = "spawned"
    /\ audit_log' = Append(audit_log, task[r].log)
    /\ task' = [task EXCEPT ![r].pc = "done"]
    /\ UNCHANGED <<handler, http_response>>

AuditNext ==
    \/ \E r \in Requests : Extract(r)
    \/ \E r \in Requests : WithLog(r)
    \/ \E r \in Requests : IntoResponse(r)
    \/ \E r \in Requests : Complete(r)

\* the requests alone
AuditInit == Init /\ dependencies = NoDeps

AuditSpec == AuditInit /\ [][AuditNext]_vars

\* the runtime runs every handler that has returned to its response and
\* every spawned task to its end
AuditFairSpec ==
    /\ AuditSpec
    /\ \A r \in Requests : WF_vars(IntoResponse(r)) /\ WF_vars(Complete(r))

(***************************************************************************)
(* charon: stopping a VM package                                           *)
(***************************************************************************)
\* the emulator starts and listens on <volume-root>/qemu-monitor
VmStart ==
    /\ UNCHANGED <<mvars, cvars, rvars, kvars, tvars, vvars, ivars, lvars, gvars, jvars, avars, zvars, yvars, bvars, dvars, pvars>>
    /\ monitor = "closed"
    /\ monitor' = "listening"
    /\ UNCHANGED <<wire, qcall, qpc, qres, qcalls>>

\* the emulator exits, of itself or after a command, and the socket is gone
VmExit ==
    /\ UNCHANGED <<mvars, cvars, rvars, kvars, tvars, vvars, ivars, lvars, gvars, jvars, avars, zvars, yvars, bvars, dvars, pvars>>
    /\ monitor = "listening"
    /\ monitor' = "closed"
    /\ UNCHANGED <<wire, qcall, qpc, qres, qcalls>>

\* stop_package of a VM package, which is vm_shutdown
VmShutdown ==
    /\ UNCHANGED <<mvars, cvars, rvars, kvars, tvars, vvars, ivars, lvars, gvars, jvars, avars, zvars, yvars, bvars, dvars, pvars>>
    /\ qpc \in {"idle", "returned"}
    /\ qcalls < MaxStops
    /\ \E title \in StoppedTitles :
        qcall' = [title |-> title, command |-> "system_powerdown"]
    /\ qpc' = "new"
    /\ qres' = NotStopped
    /\ qcalls' = qcalls + 1
    /\ UNCHANGED <<monitor, wire>>

\* vm_quit
VmQuit ==
    /\ UNCHANGED <<mvars, cvars, rvars, kvars, tvars, vvars, ivars, lvars, gvars, jvars, avars, zvars, yvars, bvars, dvars, pvars>>
    /\ qpc \in {"idle", "returned"}
    /\ qcalls < MaxStops
    /\ \E title \in StoppedTitles :
        qcall' = [title |-> title, command |-> "quit"]
    /\ qpc' = "new"
    /\ qres' = NotStopped
    /\ qcalls' = qcalls + 1
    /\ UNCHANGED <<monitor, wire>>

\* vm_client: Client::new opens the socket; an error is answered with the
\* error of a package that is not running or not monitored
ClientNew ==
    /\ UNCHANGED <<mvars, cvars, rvars, kvars, tvars, vvars, ivars, lvars, gvars, jvars, avars, zvars, yvars, bvars, dvars, pvars>>
    /\ qpc = "new"
    /\ IF monitor = "listening"
       THEN /\ wire' = Append(wire, "connect")
            /\ qpc' = vm_client("new")
            /\ UNCHANGED qres
       ELSE /\ qres' = StopErr(NotMonitored(qcall.title))
            /\ qpc' = "returned"
            /\ UNCHANGED wire
    /\ UNCHANGED <<monitor, qcall, qcalls>>

\* Client::handshake: one greeting line is read
Handshake ==
    /\ UNCHANGED <<mvars, cvars, rvars, kvars, tvars, vvars, ivars, lvars, gvars, jvars, avars, zvars, yvars, bvars, dvars, pvars>>
    /\ qpc = "handshake"
    /\ IF monitor = "listening"
       THEN /\ wire' = Append(wire, "greeting")
            /\ qpc' = vm_client("handshake")
            /\ UNCHANGED qres
       ELSE /\ qres' = StopErr("read")
            /\ qpc' = "returned"
            /\ UNCHANGED wire
    /\ UNCHANGED <<monitor, qcall, qcalls>>

\* Client::send_command: the command is written as one line and one response
\* line is read; a return is success and an error is failure
SendCommand ==
    /\ UNCHANGED <<mvars, cvars, rvars, kvars, tvars, vvars, ivars, lvars, gvars, jvars, avars, zvars, yvars, bvars, dvars, pvars>>
    /\ qpc \in {"qmp_capabilities", "command"}
    /\ LET name == IF qpc = "command" THEN qcall.command ELSE "qmp_capabilities" IN
       IF monitor = "listening"
       THEN \E response \in Responses :
               /\ wire' = wire \o <<name, response>>
               /\ IF response = "error"
                  THEN qres' = StopErr("error") /\ qpc' = "returned"
                  ELSE IF qpc = "command"
                  THEN qres' = StopOk /\ qpc' = "returned"
                  ELSE qpc' = vm_client(qpc) /\ UNCHANGED qres
       ELSE /\ qres' = StopErr("write")
            /\ qpc' = "returned"
            /\ UNCHANGED wire
    /\ UNCHANGED <<monitor, qcall, qcalls>>

StopNext ==
    \/ VmStart
    \/ VmExit
    \/ VmShutdown
    \/ VmQuit
    \/ ClientNew
    \/ Handshake
    \/ SendCommand

\* the stops alone
StopInit == Init /\ dependencies = NoDeps

StopSpec == StopInit /\ [][StopNext]_vars

(***************************************************************************)
(* buckle: the Zfs service                                                 *)
(***************************************************************************)
\* an entity is created in a pool that exists, or a second pool is created
ZfsCreate ==
    /\ UNCHANGED <<mvars, cvars, rvars, kvars, tvars, vvars, ivars, lvars, gvars, jvars, avars, qvars, yvars, bvars, dvars, pvars>>
    /\ Cardinality(datasets) < MaxDatasets
    /\ \E e \in Entities \ datasets :
        /\ \A d \in datasets : d.name # e.name
        /\ \E root \in datasets \cup {e} : root.name = PoolOf(e.name)
        /\ datasets' = datasets \cup {e}
    /\ UNCHANGED <<zreq, zres>>

\* an entity is destroyed, or the second pool when it is empty
ZfsDestroy ==
    /\ UNCHANGED <<mvars, cvars, rvars, kvars, tvars, vvars, ivars, lvars, gvars, jvars, avars, qvars, yvars, bvars, dvars, pvars>>
    /\ \E e \in datasets :
        /\ e.name # PoolName
        /\ \A other \in datasets : PoolOf(other.name) = e.name => other = e
        /\ datasets' = datasets \ {e}
    /\ UNCHANGED <<zreq, zres>>

\* Zfs::list: Pool::list with the filter of the request
ZfsList ==
    /\ UNCHANGED <<mvars, cvars, rvars, kvars, tvars, vvars, ivars, lvars, gvars, jvars, avars, qvars, yvars, bvars, dvars, pvars>>
    /\ \E filter \in Filters, order \in Orders(datasets) :
        LET items == list(datasets, PoolName, order, filter) IN
        /\ zreq' = [op |-> "list", arg |-> filter, existing |-> datasets]
        /\ zres' = [returned |-> TRUE, ok |-> items.ok, entries |-> items.value, exists |-> FALSE]
    /\ UNCHANGED datasets

\* Zfs::exists: Pool::list with the name as the filter, then the first entry
ZfsExists ==
    /\ UNCHANGED <<mvars, cvars, rvars, kvars, tvars, vvars, ivars, lvars, gvars, jvars, avars, qvars, yvars, bvars, dvars, pvars>>
    /\ \E name \in AskedNames, order \in Orders(datasets) :
        LET items == list(datasets, PoolName, order, Some(name)) IN
        /\ zreq' = [op |-> "exists", arg |-> Some(name), existing |-> datasets]
        /\ zres' = [returned |-> TRUE, ok |-> items.ok, entries |-> << >>,
                    exists |-> items.ok /\ first_is(name, items.value)]
    /\ UNCHANGED datasets

ZfsNext ==
    \/ ZfsCreate
    \/ ZfsDestroy
    \/ ZfsList
    \/ ZfsExists

\* the pool alone
ZfsInit == Init /\ dependencies = NoDeps

ZfsSpec == ZfsInit /\ [][ZfsNext]_vars

(***************************************************************************)
(* buckle: modifying a dataset or a volume                                 *)
(***************************************************************************)
\* Zfs::modify_dataset is called
ZfsModifyDataset ==
    /\ UNCHANGED <<mvars, cvars, rvars, kvars, tvars, vvars, ivars, lvars, gvars, jvars, avars, qvars, zvars, bvars, dvars, pvars>>
    /\ modify.kind = "none" \/ modify.returned
    /\ \E name \in ModifiedNames, new \in NewNames, quota \in Quotas :
        LET info == ModifyDataset(name, new, quota) IN
        modify' = [kind |-> "dataset", info |-> info, calls |-> modify_dataset(PoolName, info),
                   returned |-> FALSE, ok |-> FALSE]
    /\ zlog' = << >>

\* Zfs::modify_volume is called
ZfsModifyVolume ==
    /\ UNCHANGED <<mvars, cvars, rvars, kvars, tvars, vvars, ivars, lvars, gvars, jvars, avars, qvars, zvars, bvars, dvars, pvars>>
    /\ modify.kind = "none" \/ modify.returned
    /\ \E name \in ModifiedNames, new \in NewNames, size \in Sizes :
        LET info == ModifyVolume(name, new, size) IN
        modify' = [kind |-> "volume", info |-> info, calls |-> modify_volume(PoolName, info),
                   returned |-> FALSE, ok |-> FALSE]
    /\ zlog' = << >>

\* the next call on the controller: a set of no properties returns at once;
\* every other call runs its command, which succeeds or fails, and a failure
\* is returned
ControllerCall ==
    /\ modify.kind # "none" /\ ~modify.returned /\ modify.calls # << >>
    /\ LET command == Head(modify.calls) IN
       IF command = NotRun
       THEN /\ modify' = [modify EXCEPT !.calls = Tail(@)]
            /\ UNCHANGED <<zlog, zvars>>
       ELSE /\ zlog' = Append(zlog, command)
            /\ \E ok \in {TRUE, FALSE} :
                /\ ok => CanRun(datasets, command)
                /\ IF ok
                   THEN /\ modify' = [modify EXCEPT !.calls = Tail(@)]
                        /\ datasets' = AfterCommand(datasets, command)
                   ELSE /\ modify' = [modify EXCEPT !.returned = TRUE, !.ok = FALSE]
                        /\ UNCHANGED datasets
            /\ UNCHANGED <<zreq, zres>>
    /\ UNCHANGED <<mvars, cvars, rvars, kvars, tvars, vvars, ivars, lvars, gvars, jvars, avars, qvars, bvars, dvars, pvars>>

\* no call is left: Ok(())
ModifyReturn ==
    /\ UNCHANGED <<mvars, cvars, rvars, kvars, tvars, vvars, ivars, lvars, gvars, jvars, avars, qvars, zvars, bvars, dvars, pvars>>
    /\ modify.kind # "none" /\ ~modify.returned /\ modify.calls = << >>
    /\ modify' = [modify EXCEPT !.returned = TRUE, !.ok = TRUE]
    /\ UNCHANGED zlog

ModifyNext ==
    \/ ZfsModifyDataset
    \/ ZfsModifyVolume
    \/ ControllerCall
    \/ ModifyReturn
    \/ ZfsCreate
    \/ ZfsDestroy

\* the modifications alone
ModifyInit == Init /\ dependencies = NoDeps

ModifySpec == ModifyInit /\ [][ModifyNext]_vars

(***************************************************************************)
(* buckle: the migrations run at startup                                   *)
(***************************************************************************)
\* main calls run_migrations(migrations(), Default::default()): the completed
\* set is read from the file, or is empty when the file cannot be opened;
\* the map yields its names in some order
RunMigrations ==
    /\ UNCHANGED <<mvars, cvars, rvars, kvars, tvars, vvars, ivars, lvars, gvars, jvars, avars, qvars, zvars, yvars, dvars, pvars>>
    /\ bpc \in {"idle", "returned ok", "returned err"}
    /\ bruns < MaxRuns
    /\ bruns' = bruns + 1
    /\ completed' = IF migration_files.primary.present THEN migration_files.primary.names ELSE {}
    /\ \E order \in Orders(PlanNames) : plan_order' = order
    /\ plan_state' = DefaultMigrationState
    /\ bcur' = NoCurrent
    /\ bpc' = "next"
    /\ UNCHANGED <<migration_files, blog>>

\* the head of the loop over the map: a completed name is passed over,
\* another one is run; after the last name Ok(())
NextMigration ==
    /\ UNCHANGED <<mvars, cvars, rvars, kvars, tvars, vvars, ivars, lvars, gvars, jvars, avars, qvars, zvars, yvars, dvars, pvars>>
    /\ bpc = "next"
    /\ IF plan_order = << >>
       THEN bpc' = "returned ok" /\ UNCHANGED <<plan_order, bcur>>
       ELSE IF Skipped(completed, Head(plan_order))
       THEN plan_order' = Tail(plan_order) /\ UNCHANGED <<bpc, bcur>>
       ELSE /\ bcur' = [name |-> Head(plan_order), step |-> 1]
            /\ bpc' = "step"
            /\ UNCHANGED plan_order
    /\ UNCHANGED <<migration_files, completed, plan_state, blog, bruns>>

\* run_migration: the next step is called with the state; its error is
\* returned at once by run_migration and by run_migrations
RunStep ==
    /\ UNCHANGED <<mvars, cvars, rvars, kvars, tvars, vvars, ivars, lvars, gvars, jvars, avars, qvars, zvars, yvars, dvars, pvars>>
    /\ bpc = "step"
    /\ bcur.step <= PlanSteps
    /\ \E ok \in {TRUE, FALSE} :
        LET returned == Closure(bcur.name, bcur.step, plan_state) IN
        /\ blog' = Append(blog, [run |-> bruns, name |-> bcur.name, step |-> bcur.step,
                                 given |-> plan_state, ok |-> ok,
                                 returned |-> IF ok THEN returned ELSE << >>,
                                 done |-> completed])
        /\ IF ok
           THEN /\ plan_state' = StateReturned(plan_state, returned)
                /\ bcur' = [bcur EXCEPT !.step = @ + 1]
                /\ UNCHANGED bpc
           ELSE /\ bpc' = "returned err"
                /\ UNCHANGED <<plan_state, bcur>>
    /\ UNCHANGED <<migration_files, completed, plan_order, bruns>>

\* run_migration has returned Ok: the name is inserted into completed
MigrationCompleted ==
    /\ UNCHANGED <<mvars, cvars, rvars, kvars, tvars, vvars, ivars, lvars, gvars, jvars, avars, qvars, zvars, yvars, dvars, pvars>>
    /\ bpc = "step"
    /\ bcur.step > PlanSteps
    /\ completed' = completed \cup {bcur.name}
    /\ bpc' = "write"
    /\ UNCHANGED <<migration_files, plan_order, plan_state, bcur, blog, bruns>>

\* the completed set is written to the .tmp file, unless it cannot be opened
WriteCompleted ==
    /\ UNCHANGED <<mvars, cvars, rvars, kvars, tvars, vvars, ivars, lvars, gvars, jvars, avars, qvars, zvars, yvars, dvars, pvars>>
    /\ bpc = "write"
    /\ \E ok \in {TRUE, FALSE} :
        IF ok
        THEN /\ migration_files' = [migration_files EXCEPT !.tmp = NamesFile(completed)]
             /\ bpc' = "rename"
        ELSE /\ bpc' = "returned err"
             /\ UNCHANGED migration_files
    /\ UNCHANGED <<completed, plan_order, plan_state, bcur, blog, bruns>>

\* the .tmp file is renamed over the file, and the loop goes on
RenameCompleted ==
    /\ UNCHANGED <<mvars, cvars, rvars, kvars, tvars, vvars, ivars, lvars, gvars, jvars, avars, qvars, zvars, yvars, dvars, pvars>>
    /\ bpc = "rename"
    /\ migration_files' = [primary |-> migration_files.tmp, tmp |-> NoNames]
    /\ plan_order' = Tail(plan_order)
    /\ bcur' = NoCurrent
    /\ bpc' = "next"
    /\ UNCHANGED <<completed, plan_state, blog, bruns>>

RunnerNext ==
    \/ RunMigrations
    \/ NextMigration
    \/ RunStep
    \/ MigrationCompleted
    \/ WriteCompleted
    \/ RenameCompleted

\* the runner alone
RunnerInit == Init /\ dependencies = NoDeps

RunnerSpec == RunnerInit /\ [][RunnerNext]_vars

(***************************************************************************)
(* vayama: migration_dependencies, statement by statement                  *)
(***************************************************************************)
\* migration_dependencies(index) up to the loop: the declared dependencies
\* are inserted into deps and the two lengths are set
DependenciesCall ==
    /\ UNCHANGED <<mvars, cvars, rvars, kvars, tvars, vvars, ivars, lvars, gvars, jvars, avars, qvars, zvars, yvars, bvars, pvars>>
    /\ dep_pc \in {"idle", "returned"}
    /\ \E index \in Indexes :
        /\ dep_index' = index
        /\ dep_set' = dependencies[index]
        /\ current_len' = Cardinality(dependencies[index])
    /\ last_len' = 0
    /\ dep_queue' = << >>
    /\ dep_pc' = "while"

\* the head of the while loop: another pass over a clone of deps, or the
\* return of deps as a vector
DependenciesWhile ==
    /\ UNCHANGED <<mvars, cvars, rvars, kvars, tvars, vvars, ivars, lvars, gvars, jvars, avars, qvars, zvars, yvars, bvars, pvars>>
    /\ dep_pc = "while"
    /\ IF KeepsExpanding(last_len, current_len)
       THEN /\ last_len' = current_len
            /\ dep_queue' = SortedSeq(dep_set)
            /\ dep_pc' = "for"
       ELSE /\ dep_pc' = "returned"
            /\ UNCHANGED <<last_len, dep_queue>>
    /\ UNCHANGED <<dep_index, dep_set, current_len>>

\* one element of the clone: the dependencies of the migration of that name,
\* if there is one, are inserted into deps
DependenciesFor ==
    /\ UNCHANGED <<mvars, cvars, rvars, kvars, tvars, vvars, ivars, lvars, gvars, jvars, avars, qvars, zvars, yvars, bvars, pvars>>
    /\ dep_pc = "for"
    /\ dep_queue # << >>
    /\ dep_set' = dep_set \cup UNION {dependencies[i] : i \in {j \in Indexes : Name(j) = Head(dep_queue)}}
    /\ dep_queue' = Tail(dep_queue)
    /\ UNCHANGED <<dep_index, last_len, current_len, dep_pc>>

\* the end of the pass: current_len = deps.len()
DependenciesLen ==
    /\ UNCHANGED <<mvars, cvars, rvars, kvars, tvars, vvars, ivars, lvars, gvars, jvars, avars, qvars, zvars, yvars, bvars, pvars>>
    /\ dep_pc = "for"
    /\ dep_queue = << >>
    /\ current_len' = Cardinality(dep_set)
    /\ dep_pc' = "while"
    /\ UNCHANGED <<dep_index, dep_set, last_len, dep_queue>>

DependenciesNext ==
    \/ DependenciesCall
    \/ DependenciesWhile
    \/ DependenciesFor
    \/ DependenciesLen

\* the function on every dependency graph explored
DependenciesSpec == Init /\ [][DependenciesNext]_vars

\* a call that was made runs on
DependenciesFairSpec ==
    /\ DependenciesSpec
    /\ WF_vars(DependenciesWhile) /\ WF_vars(DependenciesFor) /\ WF_vars(DependenciesLen)

(***************************************************************************)
(* buckle: the migrator of the plan                                        *)
(***************************************************************************)
\* load_migrations: Migrator::new_with_root reads the state the migrator
\* persisted before: a cursor within the plan and, as failed, names of
\* migrations the cursor has passed
PlanLoad ==
    /\ UNCHANGED <<mvars, cvars, rvars, kvars, tvars, vvars, ivars, lvars, gvars, jvars, avars, qvars, zvars, yvars, bvars, dvars>>
    /\ plan_pc = "new"
    /\ \E current \in 0..Len(plan_migrations) :
         \E failed \in SUBSET PlanNamesUpTo(current) :
            /\ plan_current' = current
            /\ plan_failed' = failed
    /\ plan_pc' = "loaded"
    /\ UNCHANGED plan_log

\* Migrator::execute: the migration at the cursor is executed with its
\* dependencies, the cursor moves on and a migration that fails is inserted
\* into the failed set
PlanExecute ==
    /\ UNCHANGED <<mvars, cvars, rvars, kvars, tvars, vvars, ivars, lvars, gvars, jvars, avars, qvars, zvars, yvars, bvars, dvars>>
    /\ plan_pc = "loaded"
    /\ plan_current < Len(plan_migrations)
    /\ LET r == plan_execute(plan_current + 1, plan_failed)
       IN  /\ plan_failed' = IF r.ok THEN plan_failed
                             ELSE plan_failed \cup {plan_migrations[plan_current + 1].name}
           /\ plan_log' = plan_log \o r.log
    /\ plan_current' = plan_current + 1
    /\ UNCHANGED plan_pc

\* Migrator::execute_failed
PlanExecuteFailed ==
    /\ UNCHANGED <<mvars, cvars, rvars, kvars, tvars, vvars, ivars, lvars, gvars, jvars, avars, qvars, zvars, yvars, bvars, dvars>>
    /\ plan_pc = "loaded"
    /\ LET r == plan_execute_failed(1, plan_failed, plan_failed, plan_log)
       IN  /\ plan_failed' = r.failed
           /\ plan_log' = r.log
    /\ UNCHANGED <<plan_pc, plan_current>>

PlanNext ==
    \/ PlanLoad
    \/ PlanExecute
    \/ PlanExecuteFailed

PlanInit == Init /\ dependencies = NoDeps

PlanSpec == PlanInit /\ [][PlanNext]_vars

Next ==
    \/ PlanNext
    \/ DependenciesNext
    \/ RunnerNext
    \/ ModifyNext
    \/ ZfsNext
    \/ StopNext
    \/ AuditNext
    \/ UnitLogNext
    \/ CommandNext
    \/ ListNext
    \/ RoundTripNext
    \/ ValidateNext
    \/ TemplateNext
    \/ MigratorNext
    \/ CharonNext
    \/ ConcurrentInstallNext
    \/ RegistryNext
    \/ CompileNext
    \/ ConcurrentSetNext

Spec == Init /\ [][Next]_vars

(***************************************************************************)
(* Claims                                                                  *)
(***************************************************************************)
Range(seq) == {seq[k] : k \in 1..Len(seq)}

\* position of the first occurrence of x in seq, 0 when there is none
Pos(seq, x) ==
    IF x \in Range(seq) THEN CHOOSE k \in 1..Len(seq) : seq[k] = x /\ \A j \in 1..(k - 1) : seq[j] # x
    ELSE 0

NotCompile(x) == x.step # "compile"

RECURSIVE CreateSteps(_)
CreateSteps(e) ==
    IF e > NumVolumes THEN << >> ELSE <<Step("create", e)>> \o CreateSteps(e + 1)

Succeeded(h, o) == op[h] = o /\ hpc[h] = "done" /\ hres[h] = "ok"

\* C1: every successful install has done, in this order: compile; create the
\* root dataset; create each declared volume in declared order (a dataset with
\* quota = size for a volume with a mountpoint, a block volume otherwise);
\* create the marker; write the unit file; reload the manager; start the unit.
\* So when the install returns Ok every storage entity of the package exists.
C1_InstallOrder ==
    \A h \in Handlers :
        Succeeded(h, "install") =>
            /\ trace[h][1] = Step("compile", 0)
            /\ SelectSeq(trace[h], NotCompile) =
                 CreateSteps(RootEntity) \o
                 <<Step("marker", 0), Step("unit_file", 0), Step("reload", 0),
                   Step("start", 0)>>
            /\ \A e \in {RootEntity} \cup VolumeIndexes : ProvisionRequest(e) \in zfs

\* C2: every successful uninstall with purge has asked the unit to stop, then
\* seen a poll report dead, failed or exited (or the lookup fail), then destroyed
\* every volume's entity, then the root dataset, then removed the marker, then
\* removed the unit file and reloaded the manager last.
C2_UninstallOrder ==
    \A h \in Handlers :
        (Succeeded(h, "uninstall") /\ purge[h]) =>
            LET tr == SelectSeq(trace[h], NotCompile)
                polled == IF Step("poll_stopped", 0) \in Range(tr)
                          THEN Pos(tr, Step("poll_stopped", 0))
                          ELSE Pos(tr, Step("poll_unknown", 0))
            IN /\ 0 < Pos(tr, Step("stop", 0))
               /\ Pos(tr, Step("stop", 0)) < polled
               /\ \A e \in VolumeIndexes :
                    /\ polled < Pos(tr, Step("destroy", e))
                    /\ Pos(tr, Step("destroy", e)) < Pos(tr, Step("destroy", RootEntity))
               /\ polled < Pos(tr, Step("destroy", RootEntity))
               /\ Pos(tr, Step("destroy", RootEntity)) < Pos(tr, Step("remove_marker", 0))
               /\ Pos(tr, Step("remove_marker", 0)) < Pos(tr, Step("remove_unit_file", 0))
               /\ Pos(tr, Step("remove_unit_file", 0)) < Pos(tr, Step("reload", 0))
               /\ Pos(tr, Step("reload", 0)) = Len(tr)

\* C3: a migration that execute had selected when the process crashed is not
\* selected by execute again after the restart: the reloaded cursor is past it
\* and its name is in the failed set.
C3_CrashedStepNotRerun ==
    \A m \in crashed_in :
        pc # "down" =>
            /\ state.current_state >= m
            /\ Name(m) \in state.failed_migrations
            /\ ~(mode = "execute" /\ pc \in Callables /\ cur = m)

\* the names reachable from S in at most k steps along the declared
\* dependencies of the migrations of the list
RECURSIVE ReachableIn(_, _)
ReachableIn(S, k) ==
    IF k = 0 THEN S
    ELSE ReachableIn(S \cup {n \in Names \cup {GhostName} :
                              \E i \in Indexes : Name(i) \in S /\ n \in dependencies[i]},
                     k - 1)

\* the transitive dependency closure of migration i
TransitiveClosure(i) == ReachableIn(dependencies[i], NumMigrations)

\* the entries of the call log that belong to the callables of migration i
CallableEntries(i) ==
    {k \in 1..Len(calls) : calls[k].m = i /\ calls[k].fn \in Callables}

\* C4: no check, run or post_check of a migration is in progress while a
\* member of its transitive dependency closure is in the failed set; an attempt
\* that ends with DependencyFailed names a member of that closure and has
\* invoked none of the migration's callables.
C4_NoRunWithFailedDependency ==
    /\ pc \in Callables =>
         TransitiveClosure(cur) \cap state.failed_migrations = {}
    /\ \A k \in 1..Len(calls) :
         calls[k].fn = "DependencyFailed" =>
            /\ calls[k].dep \in TransitiveClosure(calls[k].m)
            /\ CallableEntries(calls[k].m) = {}

\* an attempt was refused for a failed dependency that the migration does not
\* declare itself
C4_Witness ==
    \E k \in 1..Len(calls) :
        /\ calls[k].fn = "DependencyFailed"
        /\ calls[k].dep \notin dependencies[calls[k].m]

\* the last call returned Ok and was one that persists: the construction, an
\* execute that attempted a migration, or execute_failed
PersistingCallReturnedOk ==
    /\ pc = "idle"
    /\ result.ok
    /\ result.call \in {"new", "execute", "execute_failed"}

\* C5: whenever the construction, an execute that attempted a migration or an
\* execute_failed has returned Ok, vayama.state parses and deserializes to the
\* state in memory.
C5_FileEqualsMemory ==
    PersistingCallReturnedOk =>
        /\ Parses(state_file)
        /\ Deserialize(state_file) = state

\* execute was called until more_migrations() was false, then execute_failed
\* returned Ok with a migration still failed
C5_Witness ==
    /\ PersistingCallReturnedOk
    /\ result.call = "execute_failed"
    /\ ~more_migrations
    /\ state.failed_migrations # {}
    /\ Deserialize(state_file) = state

\* a step that is a call of execute, up to its first await or to its return
IsExecuteCall ==
    /\ pc = "idle"
    /\ mvars' # mvars
    /\ mode' = "execute" \/ (pc' = "idle" /\ result'.call = "execute")

\* a step of execute_failed
IsExecuteFailedStep ==
    /\ pc' # "down"
    /\ mvars' # mvars
    /\ \/ mode = "execute_failed"
       \/ mode' = "execute_failed"
       \/ pc = "idle" /\ pc' = "idle" /\ result'.call = "execute_failed"

\* C6: the cursor never decreases while the migrator lives and never exceeds
\* the number of migrations; an execute call that finds it below that number
\* adds exactly one before any callable of the selected migration is invoked,
\* and the later steps of the call keep it, whatever the outcome;
\* execute_failed never changes it.
C6_CursorMonotone ==
    /\ [](state.current_state <= NumMigrations)
    /\ []((mode = "execute" /\ pc \in Callables) => state.current_state = cur)
    /\ [][ /\ (pc # "down" /\ pc' # "down") =>
                state'.current_state >= state.current_state
           /\ (IsExecuteCall /\ state.current_state < NumMigrations) =>
                state'.current_state = state.current_state + 1
           /\ (mode = "execute" /\ pc \in Callables /\ pc' # "down") =>
                state'.current_state = state.current_state
           /\ IsExecuteFailedStep =>
                state'.current_state = state.current_state ]_vars

\* execute has returned after a failed attempt of the last migration, with the
\* cursor past it
C6_Witness ==
    /\ pc = "idle"
    /\ result.call = "execute"
    /\ calls # << >>
    /\ ~result.some
    /\ cur = NumMigrations
    /\ state.current_state = NumMigrations

\* the last callable of migration i
LastCallable(i) == IF HasPostCheck(i) THEN "post_check" ELSE "run"

\* the attempts of migration i in the call log: the entries that open one
AttemptStarts(i) ==
    {k \in 1..Len(calls) : calls[k].m = i /\ (k = 1 \/ calls[k - 1].m # i)}

\* the call log shows that an attempt of migration i succeeded
AttemptSucceeded(i) ==
    \E k \in 1..Len(calls) :
        calls[k].m = i /\ calls[k].fn = LastCallable(i) /\ calls[k].ok

ExecuteFailedReturned == pc = "idle" /\ result.call = "execute_failed"

\* C7: execute_failed attempts only migrations whose name was in failed when
\* the call started, each at most once and, by its return, each of them; a
\* name has left failed exactly when its attempt succeeded; the state is
\* written once, after all attempts.
C7_ExecuteFailed ==
    (mode = "execute_failed" \/ ExecuteFailedReturned) =>
        /\ \A k \in 1..Len(calls) : Name(calls[k].m) \in failed_snapshot
        /\ \A i \in Indexes : Cardinality(AttemptStarts(i)) <= 1
        /\ \A j, k \in 1..Len(calls) :
              (calls[j].m = calls[k].m /\ calls[j].fn = calls[k].fn) => j = k
        /\ state.failed_migrations =
              failed_snapshot \ {Name(i) : i \in {j \in Indexes : AttemptSucceeded(j)}}
        /\ mode = "execute_failed" => writes = 0
        /\ ExecuteFailedReturned =>
              /\ writes = 1
              /\ \A i \in Indexes :
                    Name(i) \in failed_snapshot => AttemptStarts(i) # {}

\* migrations [A, B, C] without dependencies, B failed in the first pass: the
\* cursor is past C, execute_failed has run B and left failed empty
C7_Witness ==
    /\ dependencies = NoDeps
    /\ ExecuteFailedReturned
    /\ result.ok
    /\ failed_snapshot = {Name(2)}
    /\ state.current_state = NumMigrations
    /\ \E k \in 1..Len(calls) : calls[k] = [m |-> 2, fn |-> "run", ok |-> TRUE, dep |-> 0]
    /\ state.failed_migrations = {}

\* a step with which an execute call that attempted a migration returns
ExecuteReturns ==
    /\ mvars' # mvars
    /\ pc = "idle" \/ (mode = "execute" /\ pc \in Callables)
    /\ pc' = "idle"
    /\ result'.call = "execute"
    /\ calls' # << >>

\* what C8 says of the memory: the cursor is past the attempted migration, so
\* that the next execute call selects the one after it; failed gains the name
\* of a migration whose attempt failed and is unchanged otherwise
ExecuteKeepsGoing ==
    /\ ExecuteReturns =>
        /\ state'.current_state = cur'
        /\ state'.failed_migrations =
              IF AttemptSucceeded(cur)' THEN state.failed_migrations
              ELSE state.failed_migrations \cup {Name(cur')}
    /\ (IsExecuteCall /\ state.current_state < NumMigrations) =>
          cur' = state.current_state + 1

\* C8 as claimed: an execute call that attempted migration i returns Ok: None
\* with the name inserted into failed and the state persisted when the attempt
\* failed, Some(i) exactly when check, run and post_check all succeeded, failed
\* then unchanged; the next execute call selects migration i + 1.
C8_AsClaimed ==
    [][ /\ ExecuteKeepsGoing
        /\ ExecuteReturns =>
            /\ result'.ok
            /\ result'.some = AttemptSucceeded(cur)'
            /\ result'.some => result'.value = cur' - 1
            /\ Deserialize(state_file') = state' ]_vars

\* C8 amended: as claimed whenever persist_state succeeds; when it fails,
\* execute returns that error instead, and the cursor and the failed set have
\* changed in memory all the same.
C8_FailureDoesNotHalt ==
    [][ /\ ExecuteKeepsGoing
        /\ ExecuteReturns =>
            /\ result'.some = (result'.ok /\ AttemptSucceeded(cur)')
            /\ result'.some => result'.value = cur' - 1
            /\ result'.ok = (Parses(state_file') /\ Deserialize(state_file') = state') ]_vars

\* a migration failed, execute returned None, and the next execute call is
\* running the migration after it
C8_Witness ==
    /\ mode = "execute"
    /\ pc = "run"
    /\ cur >= 2
    /\ Name(cur - 1) \in state.failed_migrations
    /\ crashes = 0

\* the callables migration i has, in the order Migration::execute invokes them
ExpectedCallables(i) ==
    (IF HasCheck(i) THEN <<"check">> ELSE << >>) \o <<"run">> \o
    (IF HasPostCheck(i) THEN <<"post_check">> ELSE << >>)

\* the callables of migration i that have returned in this call, in order
ReturnedCallables(i) == SelectSeq(calls, LAMBDA e : e.m = i /\ e.fn \in Callables)

\* the callables of migration i invoked in this call: the returned ones and
\* the one that is awaited
InvokedCallables(i) ==
    [k \in 1..Len(ReturnedCallables(i)) |-> ReturnedCallables(i)[k].fn] \o
    (IF pc \in Callables /\ cur = i THEN <<pc>> ELSE << >>)

IsPrefix(s, t) == Len(s) <= Len(t) /\ \A k \in 1..Len(s) : s[k] = t[k]

AllSucceeded(i) ==
    /\ Len(ReturnedCallables(i)) = Len(ExpectedCallables(i))
    /\ \A k \in 1..Len(ReturnedCallables(i)) : ReturnedCallables(i)[k].ok

SomeFailed(i) == \E k \in 1..Len(ReturnedCallables(i)) : ~ReturnedCallables(i)[k].ok

\* C9: the callables invoked for a migration in one attempt are a prefix of
\* check, run, post_check (those it has), so in that order and each at most
\* once; nothing is invoked after one that failed; an attempt with a failed
\* callable fails, a failed post_check included, whose run has returned Ok; an
\* attempt that succeeded had every callable it has return Ok.
C9_CallableOrder ==
    \A i \in Indexes :
        /\ IsPrefix(InvokedCallables(i), ExpectedCallables(i))
        /\ \A k \in 1..Len(ReturnedCallables(i)) :
              ~ReturnedCallables(i)[k].ok => k = Len(InvokedCallables(i))
        /\ (pc = "idle" /\ result.call = "execute" /\ calls # << >> /\ cur = i) =>
              /\ result.some => AllSucceeded(i)
              /\ SomeFailed(i) => ~result.some /\ Name(i) \in state.failed_migrations
        /\ (mode = "execute_failed" \/ ExecuteFailedReturned) =>
              /\ Name(i) \in failed_snapshot \ state.failed_migrations => AllSucceeded(i)
              /\ SomeFailed(i) => Name(i) \in state.failed_migrations

\* execute has returned from a migration whose run succeeded and whose
\* post_check failed
C9_Witness ==
    /\ pc = "idle"
    /\ result.call = "execute"
    /\ result.ok
    /\ ~result.some
    /\ \E k \in 2..Len(calls) :
          /\ calls[k].m = cur /\ calls[k].fn = "post_check" /\ ~calls[k].ok
          /\ calls[k - 1].m = cur /\ calls[k - 1].fn = "run" /\ calls[k - 1].ok
    /\ Name(cur) \in state.failed_migrations

\* C10: more_migrations() is false exactly when the cursor is not below the
\* number of migrations, and an execute call made then returns an error at
\* once: no callable is invoked, nothing is written, and the cursor, the
\* failed set and both files are as they were.
C10_NoMoreMigrations ==
    /\ [](more_migrations = (state.current_state < NumMigrations))
    /\ [][ (IsExecuteCall /\ state.current_state >= NumMigrations) =>
              /\ pc' = "idle"
              /\ result'.call = "execute"
              /\ ~result'.ok
              /\ calls' = << >>
              /\ writes' = 0
              /\ state' = state
              /\ state_file' = state_file
              /\ state_file_tmp' = state_file_tmp ]_vars

\* execute was called with the cursor past the last migration and returned
\* the error, a migration still being failed
C10_Witness ==
    /\ pc = "idle"
    /\ result.call = "execute"
    /\ ~result.ok
    /\ calls = << >>
    /\ state.current_state = NumMigrations
    /\ state.failed_migrations # {}
    /\ Parses(state_file)
    /\ Deserialize(state_file) = state

\* C11: vayama.state is absent or holds the complete serialization of a state;
\* every change of it puts there the state that is in memory at that persist
\* call; a step that ends with the process down (a crash, a construction whose
\* persist failed at any of its file operations) leaves it as it was.
C11_PrimaryNeverPartial ==
    /\ [](state_file = Absent \/
          (Parses(state_file) /\ Serialize(Deserialize(state_file)) = state_file))
    /\ [][ /\ state_file' # state_file =>
                /\ pc' = "idle"
                /\ result'.ok
                /\ state_file' = Serialize(state')
           /\ pc' = "down" => state_file' = state_file ]_vars

\* the process is down after a crash and a persist_state that stopped having
\* written part of the temporary file: the primary holds a complete state
C11_Witness ==
    /\ pc = "down"
    /\ crashes > 0
    /\ state_file_tmp = Garbage
    /\ Parses(state_file)
    /\ Deserialize(state_file).current_state > 0

\* C12: every name in the failed set is the name of a migration of the list;
\* a step of a call adds at most one name to it, and inserting a name that is in it
\* gives the same set. (A migration's name is in the set only with the cursor
\* past that migration, so execute itself never inserts a present name.)
C12_FailedNamesAreMigrations ==
    /\ [](state.failed_migrations \subseteq {Name(i) : i \in Indexes})
    /\ [](\A i \in Indexes :
            Name(i) \in state.failed_migrations => state.current_state >= i)
    /\ [](\A n \in state.failed_migrations :
            insert(state.failed_migrations, n) = state.failed_migrations)
    /\ [][ pc # "down" =>
              Cardinality(state'.failed_migrations \ state.failed_migrations) <= 1 ]_vars

\* execute and execute_failed calls from the default state have left the
\* names of two migrations in the failed set
C12_Witness ==
    /\ pc = "idle"
    /\ crashes = 0
    /\ result.call = "execute_failed"
    /\ Cardinality(state.failed_migrations) >= 2

\* C13: every value a Registry::load returned with Ok is a complete package:
\* the one stored before the writes or the one given to one of the writes.
C13_LoadSeesCompleteValue ==
    \A b \in loaded : \E v \in {PriorValue} \cup {Value(w) : w \in Writers} : b = Whole(v)

\* C14: Registry::list returns no entry made from a <version>.json.tmp file:
\* every version it returns is that of a <version>.json file.
C14_TmpNeverListed == listed \subseteq {TitleVersion}

\* the entity the next create call of handler h's provision is for
EntityToCreate(h) == IF Idle(h) THEN RootEntity ELSE vol[h]

\* a step of handler h that is a create call of CompiledPackage::provision
IsProvisionCreate(h) ==
    /\ Idle(h) \/ (op[h] = "provision" /\ hpc[h] = "create")
    /\ op'[h] = "provision"
    /\ <<hpc[h], hres[h], trace[h], vol[h]>>' # <<hpc[h], hres[h], trace[h], vol[h]>>

\* C15: an attempt made after one that failed part-way tolerates the storage
\* entities that are already there: its create call for an entity that exists
\* does not make the attempt fail.
C15_RerunToleratesExisting ==
    [][ \A h \in Handlers :
          (IsProvisionCreate(h) /\ Exists(EntityToCreate(h))) => hres'[h] # "err" ]_vars

\* a step of handler h that is the start of a Control::install call
IsInstallCall(h) ==
    /\ Idle(h)
    /\ op'[h] = "install"
    /\ <<op[h], hpc[h], hres[h], trace[h]>>' # <<op[h], hpc[h], hres[h], trace[h]>>

UnitSteps == {Step("unit_file", 0), Step("reload", 0), Step("start", 0)}

\* C16: an install called while the marker exists returns Err at the marker
\* step with the marker still there and nothing else changed; an install call
\* does no step on the unit unless it created the marker itself.
C16_MarkerExclusive ==
    /\ [][ \A h \in Handlers :
             (IsInstallCall(h) /\ marker) =>
                /\ hpc'[h] = "done"
                /\ hres'[h] = "err"
                /\ marker'
                /\ Range(trace'[h]) \cap ({Step("marker", 0)} \cup UnitSteps) = {}
                /\ <<unit_file, manager_loaded, last_run_state, stopping, zfs>>' =
                     <<unit_file, manager_loaded, last_run_state, stopping, zfs>> ]_vars
    /\ [](\A h \in Handlers :
             (op[h] = "install" /\ Range(trace[h]) \cap UnitSteps # {}) =>
                Step("marker", 0) \in Range(trace[h]))

\* an install found the marker that an earlier, failed install had left, and
\* returned Err after compiling: there is no unit file
C16_Witness ==
    \E h \in Handlers :
        /\ op[h] = "install"
        /\ hpc[h] = "done"
        /\ hres[h] = "err"
        /\ trace[h] = <<Step("compile", 0)>>
        /\ marker
        /\ ~unit_file

\* C17: list_installed returns the title exactly when its marker exists and
\* never anything else; installed(title) is NotInstalled when the marker is
\* absent and never NotInstalled when it exists; when an install has returned
\* Ok the title is listed, and when an uninstall has returned Ok the title is
\* NotInstalled and not listed.
C17_InstalledIffMarker ==
    /\ list_installed \subseteq {TitleVersion}
    /\ TitleVersion \in list_installed <=> marker
    /\ ~marker => installed = {"NotInstalled"}
    /\ marker => "NotInstalled" \notin installed
    /\ \A h \in Handlers :
        /\ Succeeded(h, "install") => list_installed = {TitleVersion}
        /\ Succeeded(h, "uninstall") =>
              list_installed = {} /\ installed = {"NotInstalled"}

\* an install returned Ok, having started the unit, and then an uninstall
\* returned Ok, having asked the running unit to stop
C17_Witness ==
    \E h \in Handlers :
        /\ Succeeded(h, "uninstall")
        /\ stopping
        /\ ~marker
        /\ ~unit_file

\* handler h is inside an install call
Installing(h) == op[h] = "install" /\ hpc[h] # "done"

\* C18: while one request is inside its install call no other request does a
\* step of an install; and a request creates the marker only when there is
\* none, so that of the requests that meet at most one creates it.
C18_InstallsSerialized ==
    /\ [][ \A g, h \in Handlers :
             (g # h /\ Installing(g)) =>
                <<op[h], hpc[h], hres[h], trace[h]>>' = <<op[h], hpc[h], hres[h], trace[h]>> ]_vars
    /\ [][ \A h \in Handlers :
             (Step("marker", 0) \in Range(trace'[h]) /\ Step("marker", 0) \notin Range(trace[h]))
                => (~marker /\ marker') ]_vars

\* the versions of the globals ("global") or of the responses ("response")
\* that the values of a sequence came from
VersionsFrom(values, from) ==
    {values[k].ver : k \in {j \in 1..Len(values) : values[j].from = from}}

\* C19: a compile call reads the globals once and the responses once, and
\* every value it produces from a variable or from a response is the one of
\* what it read, whatever is set in the meantime; no compiled package has
\* fields expanded from two versions of the responses.
C19_CompileReadsSnapshot ==
    /\ loads.globals <= 1
    /\ loads.responses <= 1
    /\ VersionsFrom(expanded, "global") \subseteq {globals.ver}
    /\ VersionsFrom(expanded, "response") \subseteq {responses[k].ver : k \in Prompts}
    /\ kres.ok =>
        LET pairs == kres.package.forward_ports
            values == <<kres.package.source, kres.package.cpus>> \o
                      [i \in 1..Len(pairs) |-> pairs[i][1]] \o
                      [i \in 1..Len(pairs) |-> pairs[i][2]]
        IN /\ Cardinality(VersionsFrom(values, "global")) <= 1
           /\ Cardinality(VersionsFrom(values, "response")) <= 1

\* a compile call has returned
CompileReturned == kpc = "idle" /\ kres # NoCompile

\* the expansion of a field against what this compile call read
Expansion(field, type) == output(field, type, globals, responses)

\* the package is the complete compilation of sp: every field expanded and of
\* its type, both elements of each pair of ports, the sections that sp does
\* not have in their empty form
IsCompleteCompilation(package, sp) ==
    /\ package.some
    /\ package.source.ok
    /\ package.source = Expansion(sp.source, "string")
    /\ IF sp.networking.some
       THEN LET ports == sp.networking.value.forward_ports
            IN /\ Len(package.forward_ports) = Len(ports)
               /\ \A i \in 1..Len(ports) : \A j \in 1..2 :
                    /\ package.forward_ports[i][j].ok
                    /\ package.forward_ports[i][j].num
                    /\ package.forward_ports[i][j] = Expansion(ports[i][j], "number")
       ELSE package.forward_ports = << >>
    /\ package.cpus.ok
    /\ package.cpus.num
    /\ package.cpus = IF sp.resources.some
                      THEN Expansion(sp.resources.value.cpus, "number")
                      ELSE Expansion(Literal, "number")

\* the fields whose expansion fails, by their position in the order of expansion
FailingFields ==
    {k \in 1..Len(Fields(source_package)) :
        ~Expansion(Fields(source_package)[k].field, Fields(source_package)[k].type).ok}

\* compile returned the error of the first field that fails, and no package
ReturnedFirstFieldError ==
    /\ ~kres.ok
    /\ kres.err = "field"
    /\ ~kres.package.some
    /\ kres.at \in FailingFields
    /\ \A k \in FailingFields : kres.at <= k

\* C20 as claimed: compile returns the complete compiled package or the error
\* of the first field that fails to expand or parse.
C20_AsClaimed ==
    CompileReturned =>
        \/ kres.ok /\ IsCompleteCompilation(kres.package, source_package)
        \/ ReturnedFirstFieldError

\* C20 amended: compile returns the complete compiled package, or the error
\* of the first field that fails to expand or parse, or, before any field is
\* expanded, the error of loading the globals; with an error there is no package.
C20_CompleteOrError ==
    CompileReturned =>
        \/ kres.ok /\ IsCompleteCompilation(kres.package, source_package)
                   /\ FailingFields = {}
        \/ ReturnedFirstFieldError
        \/ ~kres.ok /\ kres.err = "globals" /\ ~kres.package.some /\ expanded = << >>

\* compile returned the error of the second element of a pair of ports, the
\* first element and the source having been expanded
C20_Witness ==
    /\ CompileReturned
    /\ kres.err = "field"
    /\ kres.at = 3
    /\ Len(expanded) = 2
    /\ ~kres.package.some

\* the parts of s between the occurrences of the delimiter d
RECURSIVE Split(_, _)
Split(s, d) ==
    IF \A i \in 1..Len(s) : s[i] # d THEN <<s>>
    ELSE LET i == CHOOSE i \in 1..Len(s) : s[i] = d /\ \A j \in 1..(i - 1) : s[j] # d
         IN <<SubSeq(s, 1, i - 1)>> \o Split(SubSeq(s, i + 1, Len(s)), d)

\* the parts of the string handed to the template call: those at the even
\* positions stand between two delimiters, the last one excepted when the
\* number of parts is even
Parts == Split(template_s, DELIMITER(pass))

\* the parts that are terminated non-empty keys
TerminatedKeys == {j \in 1..(Len(Parts) - 1) : j % 2 = 0 /\ Parts[j] # << >>}

\* C21: in both passes a string without delimiter expands to itself; a key
\* of the map between two delimiters expands to the mapped value; two
\* adjacent delimiters expand to one delimiter; and when the string ends
\* inside an unterminated key, the delimiter and the partial key are put out
\* as they are.
C21_TemplateExpands ==
    tres.done =>
        LET d == DELIMITER(pass)
            last == Parts[Len(Parts)]
        IN /\ Len(Parts) = 1 => tres = TemplateOk(template_s)
           /\ (Len(Parts) = 3 /\ Parts[2] # << >> /\ Matching(template_map, Parts[2]) # {}) =>
                /\ tres.ok
                /\ \E j \in Matching(template_map, Parts[2]) :
                     tres.out = (Parts[1] \o template_map[j].value) \o Parts[3]
           /\ (Len(Parts) = 3 /\ Parts[2] = << >>) =>
                tres = TemplateOk((Parts[1] \o <<d>>) \o Parts[3])
           /\ Len(Parts) = 2 => tres = TemplateOk(template_s)
           /\ (Len(Parts) % 2 = 0 /\ tres.ok) =>
                /\ Len(tres.out) > Len(last)
                /\ SubSeq(tres.out, Len(tres.out) - Len(last), Len(tres.out)) = <<d>> \o last

\* a call has returned the expansion of a string with text before and after
\* a key that the map has
C21_Witness ==
    /\ tres.done
    /\ tres.ok
    /\ Len(Parts) = 3
    /\ Parts[1] # << >>
    /\ Parts[3] # << >>
    /\ Matching(template_map, Parts[2]) # {}
    /\ template_map[FirstMatch(template_map, Parts[2])].value # << >>

\* C22: in either pass a terminated non-empty key without an entry in the map
\* makes the call fail with the error that names the key, and no string is
\* returned, even when other keys of the string have an entry; without such
\* a key the call succeeds.
C22_UnmatchedKeyFails ==
    tres.done =>
        LET unmatched == {j \in TerminatedKeys : Matching(template_map, Parts[j]) = {}}
        IN IF unmatched = {}
           THEN tres.ok
           ELSE /\ ~tres.ok
                /\ tres.out = << >>
                /\ \E j \in unmatched :
                     /\ tres.key = Parts[j]
                     /\ \A i \in unmatched : j <= i

\* a call has failed on a key that follows a key the map has
C22_Witness ==
    /\ tres.done
    /\ ~tres.ok
    /\ \E i, j \in TerminatedKeys :
        /\ i < j
        /\ Matching(template_map, Parts[i]) # {}
        /\ tres.key = Parts[j]

\* the path does not hold a package that passes validate's own checks: no
\* file that loads, or a stored title that is not the path's, or no globals
FailsItsChecks(path) ==
    LET package == from_file(package_files, path)
    IN \/ ~package.loads
       \/ package.title # path
       \/ ~variables_files[path.name]

\* the dependencies that the package at the path declares
DeclaredDependencies(path) == Range(from_file(package_files, path).dependencies)

\* the paths and all that they depend on, directly or through others
RECURSIVE WithDependencies(_)
WithDependencies(paths) ==
    LET more == paths \cup UNION {DeclaredDependencies(q) : q \in paths}
    IN IF more = paths THEN paths ELSE WithDependencies(more)

\* no dependency leads back to a package that depends on it
AcyclicFrom(path) ==
    \A q \in WithDependencies({path}) :
        q \notin WithDependencies(DeclaredDependencies(q))

\* C23: validate(n, v) succeeds exactly when the package at the path loads,
\* its stored title is (n, v), the globals of n load, and the same holds of
\* every dependency, recursively; it fails when the package or one of its
\* transitive dependencies is missing, has another title than its path, or
\* has no globals.
C23_ValidateExactly ==
    vres # "none" =>
        vres = IF \E q \in WithDependencies({vtarget}) : FailsItsChecks(q)
               THEN "err" ELSE "ok"

\* the same for the registries in which no package depends on itself
C23_ValidateExactlyIfAcyclic ==
    (vres # "none" /\ AcyclicFrom(vtarget)) =>
        vres = IF \E q \in WithDependencies({vtarget}) : FailsItsChecks(q)
               THEN "err" ELSE "ok"

(***************************************************************************)
(* Claims: Registry::write followed by Registry::load                      *)
(***************************************************************************)
\* C24: after Registry.write(P) has returned Ok, a Registry.load of P's name
\* and version that returns a package returns P with root set to the
\* registry root and every other field equal to P's, and it fails only when
\* the open or the read of the file fails.
C24_RoundTrip ==
    (io_pc = "loaded" /\ io_written.ok) =>
        /\ io_files[PackagePath(io_package.title.name, io_package.title.version)] =
               SerializePackage(io_package)
        /\ IsPackage(SerializePackage(io_package))
        /\ io_loaded.ok =>
              io_loaded.package = [io_package EXCEPT !.root = Some(RegistryRoot)]

\* a package with an empty list of dependencies, a volume without a
\* mountpoint and a root that is not the registry's has been written and
\* loaded again
C24_Witness ==
    /\ io_pc = "loaded"
    /\ io_written.ok
    /\ io_loaded.ok
    /\ io_package.dependencies = Some(<< >>)
    /\ io_package.storage.some
    /\ io_package.storage.value.volumes # << >>
    /\ ~io_package.storage.value.volumes[1].mountpoint.some
    /\ io_package.root = Some("elsewhere")
    /\ io_package.title = Title(1, 1)

(***************************************************************************)
(* Claims: Registry::list                                                  *)
(***************************************************************************)
\* the stored package versions
StoredTitles == {Title(e.name, file_stem(e.file)) : e \in packages_dir}

\* the order of titles as stated: by name ascending, for equal names by
\* version descending
OrderedBefore(a, b) ==
    \/ ByteOrder(a.name) < ByteOrder(b.name)
    \/ a.name = b.name /\ StrictlyBefore(b.version, a.version)

\* C25: the order of titles is by name ascending and for equal names by
\* version descending; a list that returns holds one status per stored
\* package version, in that order, each installed exactly when its marker
\* exists.
C25_ListOrdered ==
    lres.ok =>
        /\ Len(lres.list) = Cardinality(StoredTitles)
        /\ {lres.list[i].title : i \in 1..Len(lres.list)} = StoredTitles
        /\ \A i \in 1..Len(lres.list) :
              lres.list[i].installed <=>
                  [name |-> lres.list[i].title.name,
                   file |-> lres.list[i].title.version] \in installed_dir
        /\ \A i, j \in 1..Len(lres.list) :
              i < j => /\ OrderedBefore(lres.list[i].title, lres.list[j].title)
                       /\ cmp(lres.list[i].title, lres.list[j].title) = "Less"

\* what the list does keep: one status per stored package version with the
\* exact installed flag, names ascending and, within a name, file names
\* descending
C25_ListByFileName ==
    lres.ok =>
        /\ Len(lres.list) = Cardinality(StoredTitles)
        /\ {lres.list[i].title : i \in 1..Len(lres.list)} = StoredTitles
        /\ \A i \in 1..Len(lres.list) :
              lres.list[i].installed <=>
                  [name |-> lres.list[i].title.name,
                   file |-> lres.list[i].title.version] \in installed_dir
        /\ \A i, j \in 1..Len(lres.list) :
              i < j =>
                \/ ByteOrder(lres.list[i].title.name) < ByteOrder(lres.list[j].title.name)
                \/ /\ lres.list[i].title.name = lres.list[j].title.name
                   /\ StrictlyBefore(Append(lres.list[j].title.version, "json"),
                                     Append(lres.list[i].title.version, "json"))

(***************************************************************************)
(* Claims: generate_command                                                *)
(***************************************************************************)
\* the values that follow an option in an argument vector, in order
ValuesOf(argv, option) ==
    LET at == SelectSeq([i \in 1..Len(argv) |-> i],
                        LAMBDA i : argv[i] = option /\ i < Len(argv))
    IN [k \in 1..Len(at) |-> argv[at[k] + 1]]

\* the places of an option in an argument vector
PlacesOf(argv, option) == {i \in 1..Len(argv) : argv[i] = option}

\* every place of the first option is before every place of the second
AllBefore(argv, first, second) ==
    \A i \in PlacesOf(argv, first), j \in PlacesOf(argv, second) : i < j

\* a volume that is mounted
IsMounted(volume) == volume.mountpoint.some

C26_Example ==
    (/\ gpc = "returned"
     /\ gpackage.source.tag = "container"
     /\ gpackage.forward_ports = << >> /\ gpackage.expose_ports = << >>
     /\ ~gpackage.internal_network.some /\ ~gpackage.hostname.some
     /\ gpackage.volumes =
           << [name |-> "private", mountpoint |-> Some("/private-test")],
              [name |-> "shared", mountpoint |-> Some("/shared-test")] >>
     /\ gpackage.host_pid /\ gpackage.host_net /\ gpackage.privileged
     /\ gpackage.capabilities = <<"SYS_ADMIN", "NET_ADMIN">>) =>
        gres.argv = << "podman", "run", "--rm", "--name", "podman-test-0.0.1",
                       "-v", "/volume-root/private:/private-test:rshared",
                       "-v", "/volume-root/shared:/shared-test:rshared",
                       "--pid", "host", "--network", "host", "--privileged",
                       "--cap-add", "SYS_ADMIN", "--cap-add", "NET_ADMIN",
                       "docker://debian" >>

\* C27: for a VM package generate_command fails without a vector when a
\* volume is named image or qemu-monitor; otherwise the drives are the image
\* at index 0 and then the volumes in declared order, the k-th counted from 0
\* at index k+1, the -nic value is user followed by one hostfwd rule per port
\* pair, the memory value is <memory>M and the -smp value names cpus three
\* times.
C27_VmArgv ==
    (gpc = "returned" /\ gpackage.source.tag = "url") =>
        LET argv == gres.argv
            drives == ValuesOf(argv, "-drive")
            volumes == gpackage.volumes
            pairs == gpackage.forward_ports \o gpackage.expose_ports
            rule(pair) == ",hostfwd=tcp:0.0.0.0:" \o ToString(pair[1]) \o "-:" \o ToString(pair[2])
            rules == IF Len(pairs) = 0 THEN ""
                     ELSE IF Len(pairs) = 1 THEN rule(pairs[1])
                     ELSE IF Len(pairs) = 2 THEN rule(pairs[1]) \o rule(pairs[2])
                     ELSE rule(pairs[1]) \o rule(pairs[2]) \o rule(pairs[3])
            N == ToString(gpackage.cpus)
        IN IF \E k \in 1..Len(volumes) : volumes[k].name \in {"image", "qemu-monitor"}
           THEN ~gres.ok /\ argv = << >>
           ELSE /\ gres.ok
                /\ argv[1] = "qemu-system-x86_64"
                /\ Len(drives) = Len(volumes) + 1
                /\ drives[1] =
                     "driver=raw,if=virtio,file=/volume-root/image,cache=none,media=disk,index=0"
                /\ \A k \in 0..(Len(volumes) - 1) :
                     drives[k + 2] =
                        "driver=raw,if=virtio,file=/volume-root/" \o volumes[k + 1].name \o
                        ",cache=none,media=disk,index=" \o ToString(k + 1)
                \* the drives are the end of the vector
                /\ PlacesOf(argv, "-drive") =
                     {Len(argv) - 2 * k - 1 : k \in 0..Len(volumes)}
                /\ ValuesOf(argv, "-nic") = <<"user" \o rules>>
                /\ ValuesOf(argv, "-m") = <<ToString(gpackage.memory) \o "M">>
                /\ ValuesOf(argv, "-smp") =
                     <<"cpus=" \o N \o ",cores=" \o N \o ",maxcpus=" \o N>>

\* a VM package with two volumes and ports of both kinds has its command
C27_Witness ==
    /\ gpc = "returned"
    /\ gres.ok
    /\ gpackage.source.tag = "url"
    /\ Len(gpackage.volumes) = 2
    /\ gpackage.volumes[1] # gpackage.volumes[2]
    /\ Len(gpackage.forward_ports) = 2
    /\ Len(gpackage.expose_ports) = 1
    /\ gpackage.cpus = 4

\* a VM package whose second volume is named qemu-monitor is refused
C27_WitnessRefused ==
    /\ gpc = "returned"
    /\ ~gres.ok
    /\ gpackage.source.tag = "url"
    /\ Len(gpackage.volumes) = 2
    /\ gpackage.volumes[1].name = "private"
    /\ gpackage.volumes[2].name = "qemu-monitor"

(***************************************************************************)
(* Claims: unit-log                                                        *)
(***************************************************************************)
\* the entries a walk gives from a position in a direction, in order
RECURSIVE Walked(_, _, _)
Walked(n, position, direction) ==
    LET entry == Stepped(n, position, direction)
    IN IF entry = 0 THEN << >>
       ELSE <<entry>> \o Walked(n, [at |-> entry, pending |-> FALSE], direction)

\* the entries the request asks for: from its cursor when not empty, else
\* from the tail rewound by count, in its direction
Requested ==
    Walked(journal, Sought(journal, log_params.count, Some(log_params.cursor)),
           log_params.direction)

\* C28: the messages delivered are, in order, the entries of the journal in
\* the direction of the request from the cursor of the request when it is
\* not empty and else from the tail rewound by count; the stream keeps the
\* order of the walker and has them all when it ends.
C28_DeliveredAsRequested ==
    /\ IsPrefix(delivered, Requested)
    /\ jpc = "ended" => delivered = Requested

\* what holds: the stream keeps the order of the walker, which walks forward
\* from the tail rewound by count whatever the request says
C28_DeliveredForwardFromTail ==
    LET walked == Walked(journal, Sought(journal, log_params.count, NoCursor), "Forward")
    IN /\ IsPrefix(delivered, walked)
       /\ jpc = "ended" => delivered = walked

(***************************************************************************)
(* Claims: the audit log                                                   *)
(***************************************************************************)
\* the rows of the audit log for the endpoint of a request
RowsOf(r) == SelectSeq(audit_log, LAMBDA row : row.endpoint = r)

\* the record the request must leave: the endpoint, the data and user id as
\* the handler left them, and the error detail exactly of a failed handler
RecordOf(r) ==
    [ endpoint |-> r,
      user_id |-> handler[r].log.user_id,
      data |-> handler[r].log.data,
      error |-> IF handler[r].result.ok THEN NoError ELSE Some(handler[r].result.body) ]

\* never more than one row for a request, a row only of a handler that has
\* returned and then the record it must leave, and the response the result
AuditedOnce ==
    \A r \in Requests :
        /\ Len(RowsOf(r)) <= 1
        /\ Len(RowsOf(r)) = 1 =>
              /\ handler[r].pc = "responded"
              /\ RowsOf(r)[1] = RecordOf(r)
        /\ http_response[r].sent =>
              /\ http_response[r].ok = handler[r].result.ok
              /\ http_response[r].body = handler[r].result.body

C30_ConstructedState ==
    [][(pc = "down" /\ result'.call = "new" /\ result'.ok) =>
          LET chosen ==
                CASE state_file.kind = "json" ->
                       [current_state |-> state_file.current_state,
                        failed_migrations |-> Range(state_file.failed_migrations)]
                  [] state_file.kind # "json" /\ state_file_tmp.kind = "json" ->
                       [current_state |-> state_file_tmp.current_state,
                        failed_migrations |-> Range(state_file_tmp.failed_migrations)]
                  [] OTHER -> [current_state |-> 0, failed_migrations |-> {}]
          IN /\ state' = chosen
             /\ state_file'.kind = "json"
             /\ state_file'.current_state = chosen.current_state
             /\ Range(state_file'.failed_migrations) = chosen.failed_migrations
             /\ pc' = "idle"]_vars

\* a migrator has been constructed with a state that is not the default one
\* and vayama.state holds it
C30_Witness ==
    /\ result.call = "new"
    /\ result.ok
    /\ pc = "idle"
    /\ state.current_state = 2
    /\ Cardinality(state.failed_migrations) = 2
    /\ state_file = Serialize(state)
    /\ state_file_tmp = Absent

(***************************************************************************)
(* Claims: stopping a VM package                                           *)
(***************************************************************************)
\* the line at a place of the wire is a stop command
IsStopCommand(i) == wire[i] \in StopCommands

\* the four lines before a place of the wire are those of a socket opened,
\* a greeting read, the capabilities sent and their acknowledgement
AfterNegotiation(i) ==
    /\ i > 4
    /\ wire[i - 4] = "connect"
    /\ wire[i - 3] = "greeting"
    /\ wire[i - 2] = "qmp_capabilities"
    /\ wire[i - 1] = "return"

\* the step of a stop in which Client::new returns
OpenReturns == qpc = "new" /\ qpc' # "new"

\* C31: every system_powerdown or quit on the monitor socket comes right
\* after the socket was opened, the greeting was read, qmp_capabilities was
\* sent and acknowledged with a return, in that order, and a stop that has
\* returned success has sent its command so; a stop whose socket cannot be
\* opened returns the error '<title> is not running or not monitored' and
\* puts nothing on the wire.
C31_StopAfterNegotiation ==
    /\ [](\A i \in DOMAIN wire : IsStopCommand(i) => AfterNegotiation(i))
    /\ []((qres.returned /\ qres.ok) =>
            /\ Len(wire) > 1
            /\ wire[Len(wire) - 1] = qcall.command
            /\ wire[Len(wire)] = "return")
    /\ [][(OpenReturns /\ monitor # "listening") =>
            /\ qres' = StopErr(NotMonitored(qcall.title))
            /\ wire' = wire]_vars

\* a stop has returned success after a command on the wire
C31_Witness ==
    /\ qres.returned /\ qres.ok
    /\ \E i \in DOMAIN wire : IsStopCommand(i)

\* a stop has failed on a socket that could not be opened
C31_WitnessNotMonitored ==
    /\ qres.returned /\ ~qres.ok
    /\ qres.error = NotMonitored(qcall.title)

(***************************************************************************)
(* Claims: listing the pool                                                *)
(***************************************************************************)
\* a full name lies inside the configured pool
InPool(full_name) == starts_with(full_name, PoolName \o <<"/">>)

\* the full names a list has returned
ListedFullNames == {zres.entries[k].full_name : k \in DOMAIN zres.entries}

\* C32: a list that returns, returns only entries that lie inside the
\* configured pool, so neither the pool's root nor the root or an entry of
\* another pool, and with a filter exactly the entries in the pool whose
\* full name starts with <pool>/<filter>.
C32_ListInsidePool ==
    (zreq.op = "list" /\ zres.ok) =>
        /\ \A full_name \in ListedFullNames : InPool(full_name)
        /\ zreq.arg.some =>
              ListedFullNames =
                  {e.name : e \in {d \in zreq.existing :
                      InPool(d.name) /\ starts_with(d.name, FullName(PoolName, zreq.arg.value))}}

\* a list with a filter returns exactly the entries in the pool whose full
\* name starts with <pool>/<filter>, and none from outside the pool
C32_FilteredListInsidePool ==
    (zreq.op = "list" /\ zreq.arg.some) =>
        /\ zres.ok
        /\ \A full_name \in ListedFullNames : InPool(full_name)
        /\ ListedFullNames =
              {e.name : e \in {d \in zreq.existing :
                  InPool(d.name) /\ starts_with(d.name, FullName(PoolName, zreq.arg.value))}}

(***************************************************************************)
(* Claims: existence of an entity of the pool                              *)
(***************************************************************************)
\* an entity with exactly that name existed in the configured pool when the
\* request was served
ExistedInPool(name) == \E d \in zreq.existing : d.name = FullName(PoolName, name)

\* C39: exists(name) answers true exactly when a dataset or volume with
\* exactly that name exists in the configured pool, whatever else exists and
\* in whatever order the listing is enumerated; so it answers true for "v"
\* when both "v" and "v2" exist.
C39_ExistsExactly ==
    (zreq.op = "exists" /\ zres.ok) => (zres.exists = ExistedInPool(zreq.arg.value))

\* exists never answers true for a name that does not exist in the pool
C39_ExistsOnlyIfExisted ==
    (zreq.op = "exists" /\ zres.ok /\ zres.exists) => ExistedInPool(zreq.arg.value)

(***************************************************************************)
(* Claims: modifying a dataset or a volume                                 *)
(***************************************************************************)
\* the set command for a property that is given, and none otherwise
SetIfGiven(given, name, key, value) ==
    IF given
    THEN <<[cmd |-> "set", name |-> FullName(PoolName, name), to |-> << >>,
            properties |-> {<<key, value>>}]>>
    ELSE << >>

\* the commands the claim names for the modification requested, in order
CommandsToIssue ==
    LET old == modify.info.name
        new == modify.info.modifications.name
        renamed == new # << >> /\ new # old
        rename == [cmd |-> "rename", name |-> FullName(PoolName, old),
                   to |-> FullName(PoolName, new), properties |-> {}]
    IN IF modify.kind = "dataset"
       THEN SetIfGiven(modify.info.modifications.quota.some, old, "quota",
                       modify.info.modifications.quota.value)
            \o (IF renamed
                THEN <<[cmd |-> "unmount", name |-> FullName(PoolName, old), to |-> << >>,
                        properties |-> {}],
                       rename,
                       [cmd |-> "mount", name |-> PoolName, to |-> << >>, properties |-> {}]>>
                ELSE << >>)
       ELSE SetIfGiven(modify.info.modifications.size # 0, old, "volsize",
                       modify.info.modifications.size)
            \o (IF renamed THEN <<rename>> ELSE << >>)

\* C33: the commands a modification issues are, in order, those the claim
\* names and no other: for a dataset with a new, different name the set on
\* the old name, then unmount of pool/old, then the rename, then the mount of
\* the pool; for a volume the set of volsize and then the rename, with no
\* unmount; no unmount, rename or mount for an empty or unchanged name, and
\* no set without a property; a modification that returns success has
\* issued all of them.
C33_ModifyOrder ==
    modify.kind # "none" =>
        /\ IsPrefix(zlog, CommandsToIssue)
        /\ (modify.returned /\ modify.ok) => zlog = CommandsToIssue

\* a dataset was given a quota and renamed
C33_Witness ==
    /\ modify.kind = "dataset"
    /\ modify.returned /\ modify.ok
    /\ Len(zlog) = 4

\* a volume was resized and renamed
C33_WitnessVolume ==
    /\ modify.kind = "volume"
    /\ modify.returned /\ modify.ok
    /\ Len(zlog) = 2

(***************************************************************************)
(* Claims: the startup migration runner                                    *)
(***************************************************************************)
\* the step logged at i follows, in the same run, the step before it of the
\* same migration, or is the first step of a migration
StepInOrder(i) ==
    IF blog[i].step = 1
    THEN \/ i = 1
         \/ blog[i - 1].run # blog[i].run
         \/ /\ blog[i - 1].ok
            /\ blog[i - 1].step = PlanSteps
            /\ blog[i - 1].name # blog[i].name
    ELSE /\ i > 1
         /\ blog[i - 1].run = blog[i].run
         /\ blog[i - 1].name = blog[i].name
         /\ blog[i - 1].step = blog[i].step - 1
         /\ blog[i - 1].ok

\* the step logged at i was given the state the step before it returned
GivenReturnedState(i) ==
    (blog[i].step > 1) => (i > 1 /\ blog[i].given = blog[i - 1].returned)

\* nothing is invoked in a run after a step that failed
NothingAfterFailure(i) ==
    ~blog[i].ok => (i = Len(blog) \/ blog[i + 1].run # blog[i].run)

\* every step of the migration of that name has succeeded in one run
AllStepsSucceeded(name) ==
    \E i \in DOMAIN blog :
        /\ blog[i].name = name /\ blog[i].step = 1
        /\ i + PlanSteps - 1 <= Len(blog)
        /\ \A k \in 0..(PlanSteps - 1) :
              /\ blog[i + k].name = name
              /\ blog[i + k].run = blog[i].run
              /\ blog[i + k].step = k + 1
              /\ blog[i + k].ok

\* the names recorded in memory and in the two files
RecordedNames == completed \cup migration_files.primary.names \cup migration_files.tmp.names

\* C34: the steps of a migration run in declared order, each given the state
\* the step before it returned, and after a failed step nothing more is
\* invoked in that run; a name is recorded as completed, in memory and in the
\* files, only when all its steps have succeeded; the file changes only by
\* the rename of a temp file that holds the completed set; and no step is
\* invoked of a name that is in the completed set.
C34_RunnerOrder ==
    /\ [](\A i \in DOMAIN blog :
            /\ StepInOrder(i)
            /\ GivenReturnedState(i)
            /\ NothingAfterFailure(i)
            /\ blog[i].name \notin blog[i].done)
    /\ [](\A name \in RecordedNames : AllStepsSucceeded(name))
    /\ [][migration_files'.primary # migration_files.primary =>
            /\ migration_files.tmp = NamesFile(completed)
            /\ migration_files'.primary = migration_files.tmp]_vars

\* a second start has run the migration that failed in the first and has
\* recorded both names in the file
C34_Witness ==
    /\ bruns = 2
    /\ bpc = "returned ok"
    /\ migration_files.primary.names = PlanNames
    /\ \E i \in DOMAIN blog : ~blog[i].ok

(***************************************************************************)
(* Claims: the dependency closure                                          *)
(***************************************************************************)
\* C38: migration_dependencies returns from every call, on rings and on
\* names of no migration too, and what it returns is exactly the set of names
\* reachable from the declared dependencies of the migration along the
\* declared dependencies of the migrations of the list.
C38_ClosureTerminates ==
    /\ [](dep_pc = "returned" =>
            /\ dep_set = TransitiveClosure(dep_index)
            /\ dep_set = migration_dependencies(dep_index))
    /\ (dep_pc = "while" ~> dep_pc = "returned")

\* the closure of a migration on a ring was returned: every migration, the
\* migration itself included
C38_Witness ==
    /\ dep_pc = "returned"
    /\ dependencies = RingDeps
    /\ dep_set = Names

\* a closure with a name of no migration was returned
C38_WitnessGhost ==
    /\ dep_pc = "returned"
    /\ GhostName \in dep_set

(***************************************************************************)
(* Claims: termination of Registry::validate                               *)
(***************************************************************************)
\* C37: every call of validate returns, with success or with an error,
\* whatever the registry holds, also when the dependency declarations form
\* a cycle.
C37_ValidateTerminates ==
    (vpc = "running") ~> (vpc = "returned" /\ vres \in {"ok", "err"})

\* the same for the registries in which no package depends on itself
C37_ValidateTerminatesIfAcyclic ==
    (vpc = "running" /\ AcyclicFrom(vtarget)) ~> (vpc = "returned" /\ vres \in {"ok", "err"})

(***************************************************************************)
(* Claims: a failed install                                                *)
(***************************************************************************)
\* a step in which an install call of handler h returns an error
InstallReturnsErr(h) ==
    /\ IsInstallCall(h) \/ Installing(h)
    /\ op'[h] = "install" /\ hpc'[h] = "done" /\ hres'[h] = "err"

\* C36: when an install call returns an error the marker of the title is
\* absent, unless it was there before the call (the call has not created it
\* itself): a failure to write the unit file, to reload the manager or to
\* start the unit leaves no marker behind.
C36_FailedInstallLeavesNoMarker ==
    [][ \A h \in Handlers :
          InstallReturnsErr(h) =>
             (marker' => Step("marker", 0) \notin Range(trace'[h])) ]_vars

(***************************************************************************)
(* Claims: the wait loop of deprovision                                    *)
(***************************************************************************)
\* handler h is in the wait loop of a deprovision
Waiting(h) == op[h] = "deprovision" /\ hpc[h] = "wait"

\* the last-run states on which the loop is left
Terminal == {"dead", "failed", "exited"}

C40_WitnessWaiting ==
    \E h \in Handlers :
        /\ Waiting(h)
        /\ last_run_state = "running"
        /\ ~stopping

(***************************************************************************)
(* Claims: the plan of the node agent                                      *)
(***************************************************************************)
\* entry i of the log is about 'link grafana and prometheus' and was made
\* while the migration of that name was in the failed set
LinkAttemptedWhileFailed(i, name) ==
    /\ plan_log[i].m = "link grafana and prometheus"
    /\ name \in plan_log[i].failed

\* C35: 'link grafana and prometheus' is never run while 'ensure prometheus'
\* or 'ensure grafana' is in the failed set: an attempt in that state fails
\* with DependencyFailed, and neither its run nor its post_check is invoked.
C35_LinkNeedsBoth ==
    \A i \in DOMAIN plan_log :
        (\/ LinkAttemptedWhileFailed(i, "ensure prometheus")
         \/ LinkAttemptedWhileFailed(i, "ensure grafana"))
            => plan_log[i].fn = "DependencyFailed"

\* the half that holds: with 'ensure grafana' in the failed set an attempt of
\* 'link grafana and prometheus' fails with DependencyFailed
C35_LinkNeedsGrafana ==
    \A i \in DOMAIN plan_log :
        LinkAttemptedWhileFailed(i, "ensure grafana")
            => plan_log[i].fn = "DependencyFailed"

\* 'link grafana and prometheus' was refused because 'ensure grafana' failed
C35_WitnessGrafana ==
    \E i \in DOMAIN plan_log :
        /\ LinkAttemptedWhileFailed(i, "ensure grafana")
        /\ plan_log[i].fn = "DependencyFailed"

====
